---- MODULE Spec2Model ----
(***************************************************************************)
(* A model of the primary, its workers and the storage DAG of the BFT      *)
(* memory pool (node/bft/src/primary.rs, node/bft/src/worker.rs).          *)
(*                                                                         *)
(* Three specifications share the variables:                               *)
(*   Spec        the primary: proposal-cache load, batch proposer,         *)
(*               round-increment handler, certificate sync, storage        *)
(*   SpecWorker  a worker: concurrent process_unconfirmed_* calls          *)
(*   SpecDrain   the worker-draining loop of propose_batch_lite            *)
(***************************************************************************)
EXTENDS Integers, Sequences, FiniteSets, TLC

(***************************************************************************)
(* Bounds of the model.                                                    *)
(***************************************************************************)
\* transmission ids are 1..NumTids
NumTids == 4
\* the ids pushed by clients in SpecWorker are 1..NumPushTids
NumPushTids == 2
\* worker counts 1..MaxWorkers are explored (MAX_WORKERS of the build)
MaxWorkers == 2
\* model value of BatchHeader::MAX_TRANSMISSIONS_PER_BATCH
MaxTransmissionsPerBatch == 2
\* process_unconfirmed_* calls started in one behaviour of SpecWorker
MaxPushes == 2
\* the rounds the storage pointer takes in Spec are 1..MaxRound
MaxRound == 3
\* model value of Storage::max_gc_rounds
MaxGcRounds == 2
\* the certificates a proposal cache can hold are of rounds 1..MaxCacheRound
MaxCacheRound == 2
\* the ids pushed by clients in Spec are 1..NumSpecTids
NumSpecTids == 1
\* timestamps are signed integers of TsBits bits (i64 in the build)
TsBits == 2
\* the anchor round of the block under check is 2 * MaxAnchorIndex
MaxAnchorIndex == 2
\* the authors of the certificates of a subdag are 0..NumAuthors - 1
NumAuthors == 2
\* the node calls advance_to_next_block at most MaxAdvances times
MaxAdvances == 2
\* NumPeers peers send block locators for the heights 0..MaxHeight
NumPeers == 2
MaxHeight == 2
\* the node is run at most MaxRuns times
MaxRuns == 2
\* NumCallers threads call update_peer_locators at the same time
NumCallers == 2

\* propose_batch builds four accounts; validator 0 is the primary itself
NumValidators == 4
Validators == 0..(NumValidators - 1)
Self == 0

Tids == 1..NumTids

\* the range of a timestamp
TsMin == -(2 ^ (TsBits - 1))
TsMax == 2 ^ (TsBits - 1) - 1
Times == TsMin..TsMax
\* MIN_BATCH_DELAY_IN_SECS
MinBatchDelayInSecs == 1

None == "none"

\* Option<Proposal>::None
NoProposal == [some |-> FALSE, tx |-> {}]

Min(a, b) == IF a < b THEN a ELSE b
Max(a, b) == IF a > b THEN a ELSE b

\* the elements of a sequence
Range(s) == {s[i] : i \in 1..Len(s)}

VARIABLES
    storage,        \* Storage: [round, gc, certs, tx]
    ledger,         \* LedgerService: [tx, certs, up]
    numWorkers,     \* Primary.workers.len()
    ready,          \* Worker.ready of each worker: sequence of transmission ids
    pending,        \* Worker.pending of each worker: set of transmission ids
    proposed_batch, \* Primary.proposed_batch: [some, tx], the ids of the proposal
    txclass,        \* what the (id, transmission) pair of each id is
    utask,          \* the tasks spawned for unconfirmed solutions/transactions
    batch,          \* the transmissions selected by the draining loop
    dpc,            \* position of the draining loop
    bft,            \* Primary.bft_sender is set
    propose_lock,   \* the u64 guarded by Primary.propose_lock
    lock_holder,    \* the task that holds the guard of propose_lock
    signed_proposals, \* Primary.signed_proposals: validator -> round (0: vacant)
    pend,           \* pending certificates of the proposal cache not yet loaded
    pc,             \* position of each task of the primary
    loc,            \* local variables of each task of the primary
    stack,          \* the frames of sync_with_certificate_from_peer
    formed,         \* history: certificates formed per (author, round)
    headers,        \* history: the rounds of the batch headers the primary signed
    sent,           \* history: the certificates sent to the BFT (see NoSent)
    lastins,        \* history: the certificate insert_certificate just stored
    tm,             \* timestamps: [now, res, latest, own] (see TmZero)
    lsv,            \* CoreLedgerService of each node and its calls (see LsZero)
    bsy,            \* BlockSync and its calls (see BsZero)
    pcache          \* the proposal cache file and the runs so far (see NoCache)

\* the variables of the primary's tasks
pvars == <<bft, propose_lock, lock_holder, signed_proposals, pend, pc, loc, stack,
           formed, headers, sent, lastins, tm, lsv, bsy, pcache>>
\* the variables the primary's tasks never write
wvars0 == <<ledger, numWorkers, pending, txclass, utask, batch, dpc, bft, lsv, bsy,
            pcache>>
\* and those the tasks never write when the clock is left out
wvars == <<wvars0, tm>>

vars == <<storage, ledger, numWorkers, ready, pending, proposed_batch, txclass,
          utask, batch, dpc, bft, propose_lock, lock_holder, signed_proposals,
          pend, pc, loc, stack, formed, headers, sent, lastins, tm, lsv, bsy, pcache>>

\* the variables of the primary and its workers
nodevars == <<storage, ledger, numWorkers, ready, pending, proposed_batch, txclass,
              utask, batch, dpc, bft, propose_lock, lock_holder, signed_proposals,
              pend, pc, loc, stack, formed, headers, sent, lastins, tm, pcache>>

(***************************************************************************)
(* Ledger service queries used by the worker and the primary.              *)
(***************************************************************************)
\* LedgerService::contains_transmission: Ok(false) for a Ratification id
\* without a query; otherwise Ok(bool), or Err when the ledger query fails
LedgerContainsTransmission(id) ==
    IF txclass[id] = "rat" THEN "false"
    ELSE IF ~ledger.up THEN "err"
    ELSE IF id \in ledger.tx THEN "true" ELSE "false"

(***************************************************************************)
(* Storage queries.                                                        *)
(***************************************************************************)
StorageContainsTransmission(id) == id \in storage.tx

(***************************************************************************)
(* Certificates and the storage DAG. A certificate is the record           *)
(* [id, author, round, prev, tx]: its id, the author and round of its      *)
(* batch header, its previous_certificate_ids and its transmission ids.    *)
(* An id is <<author, round, k>>: k = 0 for a certificate of an earlier    *)
(* run (proposal cache, ledger), k > 0 for the k-th certificate formed in  *)
(* this run for (author, round).                                           *)
(***************************************************************************)
NoCert == [id |-> <<0, 0, 0>>, author |-> 0, round |-> 0, prev |-> {}, tx |-> {}]

Rounds == 1..MaxRound

CertIds(st) == {c.id : c \in st.certs}

\* Storage::contains_certificate
ContainsCertificate(st, id) == id \in CertIds(st)

\* Storage::get_certificates_for_round
CertificatesForRound(st, r) == {c \in st.certs : c.round = r}

\* Storage::contains_certificate_in_round_from
ContainsCertificateInRoundFrom(st, r, a) ==
    \E c \in st.certs : c.round = r /\ c.author = a

\* Committee::is_quorum_threshold_reached for a committee of NumValidators
\* members of equal stake: N - f authors, with N = 3f + 1
IsQuorumThresholdReached(authors) ==
    Cardinality(authors) >= NumValidators - ((NumValidators - 1) \div 3)

QuorumInRound(st, r) ==
    IsQuorumThresholdReached({c.author : c \in CertificatesForRound(st, r)})

\* Storage::insert_certificate, its validation: the round is above the GC
\* round, the id is new, the header is well formed (its previous ids are of
\* the previous round, the round holds no certificate of its author), and
\* each transmission is supplied or resident
InsertCertificateCheck_anyauthor(st, c, supplied) ==
    IF c.round <= st.gc THEN "StaleRound"
    ELSE IF ContainsCertificate(st, c.id) THEN "DuplicateCertificate"
    ELSE IF \E p \in c.prev : p[2] # c.round - 1 THEN "MalformedHeader"
    ELSE IF \E t \in c.tx : t \notin supplied /\ t \notin st.tx THEN "MissingTransmissions"
    ELSE "ok"
InsertCertificateCheck(st, c, supplied) ==
    IF c.round <= st.gc THEN "StaleRound"
    ELSE IF ContainsCertificate(st, c.id) THEN "DuplicateCertificate"
    ELSE IF \/ \E p \in c.prev : p[2] # c.round - 1
            \/ ContainsCertificateInRoundFrom(st, c.round, c.author)
         THEN "MalformedHeader"
    ELSE IF \E t \in c.tx : t \notin supplied /\ t \notin st.tx THEN "MissingTransmissions"
    ELSE "ok"

\* Storage::insert_certificate, its effect: the certificate is inserted at its
\* round and its transmissions are registered
InsertCertificate_notx(st, c) == [st EXCEPT !.certs = @ \cup {c}]
InsertCertificate(st, c) ==
    [st EXCEPT !.certs = @ \cup {c}, !.tx = @ \cup c.tx]

\* the storage after garbage collection up to round g: the certificates of
\* rounds <= g leave, and with them the transmissions no certificate refers to
CollectGarbage(st, g) ==
    LET kept == {c \in st.certs : c.round > g}
    IN  [st EXCEPT !.gc = g, !.certs = kept,
                   !.tx = {t \in @ : \/ \E c \in kept : t \in c.tx
                                      \/ \A d \in st.certs : t \notin d.tx}]

\* Storage::increment_to_next_round(current): the round pointer advances to
\* current + 1 (it never moves back when current is stale) and the rounds
\* <= pointer - max_gc_rounds are collected
IncrementToNextRound_stale(st, current) ==
    CollectGarbage([st EXCEPT !.round = current + 1], Max(0, current + 1 - MaxGcRounds))
IncrementToNextRound_nogc(st, current) ==
    [st EXCEPT !.round = Max(@, current + 1)]
IncrementToNextRound(st, current) ==
    LET next == Max(st.round, current + 1)
    IN  CollectGarbage([st EXCEPT !.round = next], Max(0, next - MaxGcRounds))

\* the fast-forward loop of try_increment_to_the_next_round
RECURSIVE FastForward(_, _, _)
FastForward(st, ffr, next) ==
    IF ffr < next - 1
    THEN LET s2 == IncrementToNextRound(st, ffr) IN FastForward(s2, s2.round, next)
    ELSE st

\* the certificates of an earlier run: three validators certified every round
\* on top of each other, validator 3 certified without being referred to
CacheCert(v, r) ==
    [id |-> <<v, r, 0>>, author |-> v, round |-> r,
     prev |-> IF r = 1 THEN {} ELSE {<<u, r - 1, 0>> : u \in 0..(NumValidators - 2)},
     tx |-> IF v = Self /\ r = MaxCacheRound THEN {NumPushTids} ELSE {}]

CacheCerts == {CacheCert(v, r) : v \in Validators, r \in 1..MaxCacheRound}

\* the certificates a request can be answered with: those of an earlier run
KnownCertificate(id) == \E c \in CacheCerts \cup pcache.pending : c.id = id

CertById(id) == CHOOSE c \in CacheCerts \cup pcache.pending : c.id = id

(***************************************************************************)
(* The ready queue: an ordered map keyed by transmission id.               *)
(***************************************************************************)
ReadyContains(q, id) == id \in Range(q)

\* Ready::insert: a new id is appended, a known id keeps its place
ReadyInsert_dup(q, id) == Append(q, id)
ReadyInsert_lost(q, id) == q
ReadyInsert(q, id) == IF ReadyContains(q, id) THEN q ELSE Append(q, id)

\* Ready::drain(n): removes and returns the first n entries, in insertion order
ReadyDrain(q, n) ==
    LET k == Min(n, Len(q))
    IN  [taken |-> SubSeq(q, 1, k), rest |-> SubSeq(q, k + 1, Len(q))]

\* assign_to_worker: a pure hash of the id modulo the number of workers
assign_to_worker(id, n) == id % n

Workers == 0..(numWorkers - 1)

(***************************************************************************)
(* Worker (worker.rs).                                                     *)
(***************************************************************************)
\* Worker::contains_transmission
contains_transmission_strict(w, id) ==
    \/ ReadyContains(ready[w], id)
    \/ (proposed_batch.some /\ id \in proposed_batch.tx)
    \/ StorageContainsTransmission(id)
    \/ LedgerContainsTransmission(id) # "false"
contains_transmission(w, id) ==
    \/ ReadyContains(ready[w], id)
    \/ (proposed_batch.some /\ id \in proposed_batch.tx)
    \/ StorageContainsTransmission(id)
    \/ LedgerContainsTransmission(id) = "true"

(***************************************************************************)
(* The tasks of the primary.                                               *)
(***************************************************************************)
Tasks == {"load", "tick", "inc"}

LocIdle == [round |-> 0, prev |-> {}, txs |-> <<>>, vid |-> 0, next |-> 0, cur |-> 0,
            sigs |-> {}, log |-> <<>>]

NoInsert == [on |-> FALSE, cert |-> NoCert]

\* the two nodes whose ledger services are compared
Nodes == 1..2

\* no block
NoBlock == [anchor |-> 0, certs |-> {}, leader |-> NoCert, committee |-> <<>>,
            elect |-> <<>>]

\* the ledger services before any call: the shutdown flag is clear; height
\* and latest are the latest height and block of the ledger, adv the call of
\* advance_to_next_block (calls counts the calls, after tells that the last
\* one started with the flag set), have the rounds the ledger has a committee
\* for, cache the rounds of the committee cache, lb the last call of
\* get_committee_lookback_for_round; for each validator of SpecAtomicity the
\* latest round of its ledger, the result of its check_next_block and the
\* leaders that check computed; block is the block under check
LsZero == [shutdown |-> FALSE,
           height |-> 0,
           latest |-> 0,
           adv |-> [pc |-> "idle", res |-> "none", calls |-> 0, after |-> FALSE],
           have |-> {},
           cache |-> {},
           round |-> [v \in Nodes |-> 0],
           res |-> [v \in Nodes |-> None],
           leaders |-> [v \in Nodes |-> {}],
           block |-> NoBlock,
           lb |-> [round |-> 0, asked |-> 0, res |-> "none", got |-> 0]]

\* the peers that send block locators
Peers == 1..NumPeers

\* DUMMY_SELF_IP
SelfIp == 0

\* the keys of common_ancestors the module inserts
PeerPairs ==
    {<<SelfIp, p>> : p \in Peers} \cup {k \in Peers \X Peers : k[1] # k[2]}

\* the threads that call update_peer_locators
Callers == 1..NumCallers

\* a thread outside update_peer_locators
IdleCall == [pc |-> "idle", peer |-> 0, locators |-> <<>>]

\* the block sync module before any call: canon holds the hashes of the
\* canonical chain, locators the locators of each peer (<<>>: none),
\* ancestors the common ancestor of each pair (-1: no entry), synced and
\* behind are is_block_synced and num_blocks_behind, last is the last call,
\* call[c] is where thread c stands in update_peer_locators
BsZero == [canon |-> <<>>,
           locators |-> [p \in Peers |-> <<>>],
           ancestors |-> [k \in PeerPairs |-> -1],
           synced |-> FALSE, behind |-> 0,
           last |-> [op |-> "none", peer |-> 0, res |-> "none"],
           call |-> [c \in Callers |-> IdleCall]]

\* the timestamps of a new primary: latest_proposed_batch_timestamp is 0 and
\* no certificate of the primary has a timestamp; now and res are the last
\* reading of the clock by check_proposal_timestamp and its result, own[r] is
\* the timestamp of the primary's certificate of round r
TmZero == [now |-> 0, res |-> "none", latest |-> 0, own |-> [r \in 1..MaxRound |-> 0]]

\* no proposal cache file, in the first run of the primary: exists tells
\* that the file exists, latest_round, proposal, signed_proposals and pending
\* are its content, lost tells that a shut_down failed to write the file,
\* runs counts the runs of the primary
NoCache == [exists |-> FALSE, latest_round |-> 0, proposal |-> NoProposal,
            signed_proposals |-> [v \in Validators \ {Self} |-> 0],
            pending |-> {}, lost |-> FALSE, runs |-> 1]

\* nothing was sent to the BFT: ids are the ids of the certificates given to
\* send_primary_certificate_to_bft, dup tells that one was given twice
NoSent == [ids |-> {}, dup |-> FALSE]

\* send_primary_certificate_to_bft(certificate) is called
SendToBft(id) == [ids |-> sent.ids \cup {id}, dup |-> sent.dup \/ id \in sent.ids]

\* the values of the primary's variables in a primary that never runs
PrimaryQuiet ==
    /\ bft = FALSE
    /\ propose_lock = 0
    /\ lock_holder = None
    /\ signed_proposals = [v \in Validators \ {Self} |-> 0]
    /\ pend = {}
    /\ pc = [t \in Tasks |-> "done"]
    /\ loc = [t \in Tasks |-> LocIdle]
    /\ stack = <<>>
    /\ formed = [k \in Validators \X Rounds |-> 0]
    /\ headers = <<>>
    /\ sent = NoSent
    /\ lastins = NoInsert
    /\ tm = TmZero
    /\ pcache = NoCache

\* the values of the variables of a node that never runs
NodeQuiet ==
    /\ numWorkers = 1
    /\ ready = [w \in Workers |-> <<>>]
    /\ pending = [w \in Workers |-> {}]
    /\ proposed_batch = NoProposal
    /\ txclass = [id \in Tids |-> IF id % 2 = 1 THEN "sol" ELSE "txn"]
    /\ storage = [round |-> 1, gc |-> 0, certs |-> {}, tx |-> {}]
    /\ ledger = [tx |-> {}, certs |-> {}, up |-> TRUE]
    /\ utask = [u \in 1..MaxPushes |-> [pc |-> "idle", id |-> 0, w |-> 0, res |-> None,
                                        known |-> FALSE, checked |-> FALSE,
                                        changed |-> FALSE]]
    /\ batch = <<>>
    /\ dpc = "fresh"
    /\ PrimaryQuiet

(***************************************************************************)
(* SpecWorker: the handlers of start_handlers that receive unconfirmed     *)
(* solutions and transactions spawn one task per push; the task runs       *)
(* Worker::process_unconfirmed_solution / _transaction, which suspends in  *)
(* the ledger's check_*_basic. The proposer drains, stores and reinserts   *)
(* concurrently.                                                           *)
(***************************************************************************)
UTasks == 1..MaxPushes

IdleTask == [pc |-> "idle", id |-> 0, w |-> 0, res |-> None,
             known |-> FALSE, checked |-> FALSE, changed |-> FALSE]

WorkerTypeOK ==
    /\ numWorkers \in 1..MaxWorkers
    /\ \A w \in Workers : ready[w] \in Seq(Tids)
    /\ \A u \in UTasks : utask[u].pc \in {"idle", "spawned", "check", "done"}

InitWorker ==
    /\ numWorkers \in 1..MaxWorkers
    /\ ready = [w \in Workers |-> <<>>]
    /\ \E p \in {{}, {1}} :
         pending = [w \in Workers |-> {id \in p : assign_to_worker(id, numWorkers) = w}]
    /\ proposed_batch \in {NoProposal, [some |-> TRUE, tx |-> {NumPushTids}]}
    /\ txclass = [id \in Tids |-> IF id % 2 = 1 THEN "sol" ELSE "txn"]
    /\ storage = [round |-> 1, gc |-> 0, certs |-> {}, tx |-> {}]
    /\ \E l \in {{}, {1}} : ledger = [tx |-> l, certs |-> {}, up |-> TRUE]
    /\ utask = [u \in UTasks |-> IdleTask]
    /\ batch = <<>>
    /\ dpc = "fresh"
    /\ PrimaryQuiet
    /\ lsv = LsZero
    /\ bsy = BsZero

\* start_handlers: the receiving loop computes the worker of the id and
\* spawns the task of the next push
SpawnUnconfirmed(u, id) ==
    /\ UNCHANGED pvars
    /\ utask[u].pc = "idle"
    /\ \A v \in UTasks : v < u => utask[v].pc # "idle"
    /\ utask' = [utask EXCEPT ![u] = [IdleTask EXCEPT !.pc = "spawned", !.id = id,
                                        !.w = assign_to_worker(id, numWorkers)]]
    /\ UNCHANGED <<storage, ledger, numWorkers, ready, pending, proposed_batch,
                   txclass, batch, dpc>>

\* process_unconfirmed_*, up to the suspension in the ledger check: the id
\* leaves the pending set, and a known id is refused
process_unconfirmed_begin(u, kind) ==
    LET t == utask[u] IN
    /\ UNCHANGED pvars
    /\ t.pc = "spawned"
    /\ txclass[t.id] = kind
    /\ pending' = [pending EXCEPT ![t.w] = @ \ {t.id}]
    /\ IF contains_transmission(t.w, t.id)
       THEN utask' = [utask EXCEPT ![u].pc = "done", ![u].res = "duplicate",
                                   ![u].known = contains_transmission(t.w, t.id)]
       ELSE utask' = [utask EXCEPT ![u].pc = "check", ![u].checked = TRUE,
                                   ![u].known = contains_transmission(t.w, t.id)]
    /\ UNCHANGED <<storage, ledger, numWorkers, ready, proposed_batch, txclass,
                   batch, dpc>>

\* process_unconfirmed_*, from the return of check_*_basic: an error is
\* propagated, otherwise the transmission is inserted into the ready queue
\* and Ok(()) returned whatever the insertion reports
process_unconfirmed_end(u, kind) ==
    LET t == utask[u] IN
    /\ UNCHANGED pvars
    /\ t.pc = "check"
    /\ txclass[t.id] = kind
    /\ \E ok \in BOOLEAN :
         IF ok
         THEN /\ ready' = [ready EXCEPT ![t.w] = ReadyInsert(@, t.id)]
              /\ utask' = [utask EXCEPT ![u].pc = "done", ![u].res = "ok",
                                        ![u].changed = (ready'[t.w] # ready[t.w])]
         ELSE /\ ready' = ready
              /\ utask' = [utask EXCEPT ![u].pc = "done", ![u].res = "invalid"]
    /\ UNCHANGED <<storage, ledger, numWorkers, pending, proposed_batch, txclass,
                   batch, dpc>>

process_unconfirmed_solution(u) ==
    \/ process_unconfirmed_begin(u, "sol")
    \/ process_unconfirmed_end(u, "sol")

process_unconfirmed_transaction(u) ==
    \/ process_unconfirmed_begin(u, "txn")
    \/ process_unconfirmed_end(u, "txn")

\* Worker::drain called by the proposer
WorkerDrain(w, n) ==
    /\ UNCHANGED pvars
    /\ dpc \in {"fresh", "idle"}
    /\ ready[w] # <<>>
    /\ batch' = ReadyDrain(ready[w], n).taken
    /\ ready' = [ready EXCEPT ![w] = ReadyDrain(@, n).rest]
    /\ dpc' = "drained"
    /\ UNCHANGED <<storage, ledger, numWorkers, pending, proposed_batch, txclass, utask>>

\* the proposer stores its certificate: the batch's transmissions are in storage
ProposerStore ==
    /\ UNCHANGED pvars
    /\ dpc = "drained"
    /\ storage' = [storage EXCEPT !.tx = @ \cup Range(batch)]
    /\ batch' = <<>>
    /\ dpc' = "idle"
    /\ UNCHANGED <<ledger, numWorkers, ready, pending, proposed_batch, txclass, utask>>

\* Primary::reinsert_transmissions_into_workers after a failed proposal:
\* Worker::reinsert for each transmission, in the order of the batch; it
\* inserts an id that contains_transmission does not report
RECURSIVE ReinsertAll(_, _)
ReinsertAll(ids, rdy) ==
    IF ids = <<>> THEN rdy
    ELSE LET id == Head(ids)
             w == assign_to_worker(id, numWorkers)
             known == \/ ReadyContains(rdy[w], id)
                      \/ (proposed_batch.some /\ id \in proposed_batch.tx)
                      \/ StorageContainsTransmission(id)
                      \/ LedgerContainsTransmission(id) = "true"
         IN  ReinsertAll(Tail(ids),
                         IF known THEN rdy ELSE [rdy EXCEPT ![w] = ReadyInsert(@, id)])

ProposerReinsert ==
    /\ UNCHANGED pvars
    /\ dpc = "drained"
    /\ ready' = ReinsertAll(batch, ready)
    /\ batch' = <<>>
    /\ dpc' = "idle"
    /\ UNCHANGED <<storage, ledger, numWorkers, pending, proposed_batch, txclass, utask>>

\* a block is committed: transmissions of storage enter the ledger
LedgerAdvance(id) ==
    /\ UNCHANGED pvars
    /\ id \in storage.tx
    /\ id \notin ledger.tx
    /\ ledger' = [ledger EXCEPT !.tx = @ \cup {id}]
    /\ UNCHANGED <<storage, numWorkers, ready, pending, proposed_batch, txclass,
                   utask, batch, dpc>>

\* the ledger's store starts or stops answering queries
LedgerFault ==
    /\ UNCHANGED pvars
    /\ ledger' = [ledger EXCEPT !.up = ~@]
    /\ UNCHANGED <<storage, numWorkers, ready, pending, proposed_batch, txclass,
                   utask, batch, dpc>>

NextWorker ==
    \/ \E u \in UTasks, id \in 1..NumPushTids : SpawnUnconfirmed(u, id)
    \/ \E u \in UTasks : process_unconfirmed_solution(u)
    \/ \E u \in UTasks : process_unconfirmed_transaction(u)
    \/ \E w \in Workers, n \in 1..MaxTransmissionsPerBatch : WorkerDrain(w, n)
    \/ ProposerStore
    \/ ProposerReinsert
    \/ \E id \in Tids : LedgerAdvance(id)
    \/ LedgerFault

SpecWorker == InitWorker /\ [][NextWorker]_vars

(***************************************************************************)
(* SpecDrain: the loop of propose_batch_lite that takes the transmissions  *)
(* of a batch from the workers. Its inputs are the worker count, the ready *)
(* queues, what each queued pair is, what the ledger and storage hold and  *)
(* which transmissions pass the ledger's check_*_basic during the call.    *)
(***************************************************************************)
\* IndexMap::insert on the batch: a new key is appended
IndexMapInsert(m, id) == IF id \in Range(m) THEN m ELSE Append(m, id)

\* num_transmissions_per_worker
NumTransmissionsPerWorker_whole(k) == MaxTransmissionsPerBatch
NumTransmissionsPerWorker(k) == MaxTransmissionsPerBatch \div k

\* num_remaining_transmissions
NumRemaining_whole(per, included) == per
NumRemaining(per, included) == IF per >= included THEN per - included ELSE 0

\* the checks of the 'inner loop: TRUE when the pair (id, transmission) is
\* inserted into the batch being built (sel), given the ids (okset) whose
\* check_*_basic succeeds
Selected_anykind(id, sel, okset) ==
    /\ LedgerContainsTransmission(id) = "false"
    /\ ~(sel # <<>> /\ StorageContainsTransmission(id))
    /\ id \in okset
Selected_ledgerlax(id, sel, okset) ==
    /\ LedgerContainsTransmission(id) # "true"
    /\ ~(sel # <<>> /\ StorageContainsTransmission(id))
    /\ txclass[id] \in {"sol", "txn"}
    /\ id \in okset
Selected_storagelax(id, sel, okset) ==
    /\ LedgerContainsTransmission(id) = "false"
    /\ txclass[id] \in {"sol", "txn"}
    /\ id \in okset
Selected(id, sel, okset) ==
    /\ LedgerContainsTransmission(id) = "false"
    /\ ~(sel # <<>> /\ StorageContainsTransmission(id))
    /\ txclass[id] \in {"sol", "txn"}
    /\ id \in okset

\* the 'inner loop over the drained transmissions
RECURSIVE InnerLoop(_, _, _, _)
InnerLoop(items, sel, included, okset) ==
    IF items = <<>> THEN [sel |-> sel, included |-> included]
    ELSE IF Selected(Head(items), sel, okset)
         THEN InnerLoop(Tail(items), IndexMapInsert(sel, Head(items)), included + 1, okset)
         ELSE InnerLoop(Tail(items), sel, included, okset)

\* the 'outer loop: drains one worker's queue q until enough are included or
\* the worker is empty
RECURSIVE OuterLoop(_, _, _, _, _)
OuterLoop(q, sel, included, per, okset) ==
    IF included < per
    THEN LET d == ReadyDrain(q, NumRemaining(per, included)) IN
         IF d.taken = <<>> THEN [q |-> q, sel |-> sel]
         ELSE LET r == InnerLoop(d.taken, sel, included, okset)
              IN  OuterLoop(d.rest, r.sel, r.included, per, okset)
    ELSE [q |-> q, sel |-> sel]

\* the loop over the workers, from worker w on
RECURSIVE TakeFromWorkers(_, _, _, _)
TakeFromWorkers(w, rdy, sel, okset) ==
    IF w >= numWorkers THEN [ready |-> rdy, sel |-> sel]
    ELSE LET r == OuterLoop(rdy[w], sel, 0, NumTransmissionsPerWorker(numWorkers), okset)
         IN  TakeFromWorkers(w + 1, [rdy EXCEPT ![w] = r.q], r.sel, okset)

\* an ascending sequence of the members of the set of ids S
RECURSIVE Ascending(_)
Ascending(S) ==
    IF S = {} THEN <<>>
    ELSE LET m == CHOOSE x \in S : \A y \in S : x <= y
         IN  <<m>> \o Ascending(S \ {m})

\* what a queued pair can be: a solution or transaction (well formed, or with
\* a checksum that does not match), a ratification, a pair of different
\* kinds, or a well-formed pair the ledger or storage already holds
QueuedKinds == {"sol", "txn", "badck", "rat", "mismatch", "ledger", "storage"}

InitDrain ==
    /\ numWorkers \in 1..MaxWorkers
    /\ \E S \in SUBSET Tids :
         /\ ready = [w \in Workers |->
                        Ascending({id \in S : assign_to_worker(id, numWorkers) = w})]
         /\ \E kind \in [Tids -> QueuedKinds] :
              /\ \A id \in Tids \ S : kind[id] = "sol"
              /\ txclass = [id \in Tids |->
                              IF kind[id] \in {"ledger", "storage"} THEN "sol" ELSE kind[id]]
              /\ storage = [round |-> 1, gc |-> 0, certs |-> {},
                            tx |-> {id \in Tids : kind[id] = "storage"}]
              /\ \E up \in BOOLEAN :
                   ledger = [tx |-> {id \in Tids : kind[id] = "ledger"},
                             certs |-> {}, up |-> up]
    /\ pending = [w \in Workers |-> {}]
    /\ proposed_batch = NoProposal
    /\ utask = [u \in UTasks |-> IdleTask]
    /\ batch = <<>>
    /\ dpc = "fresh"
    /\ PrimaryQuiet
    /\ lsv = LsZero
    /\ bsy = BsZero

\* propose_batch_lite takes the transmissions of its batch from the workers
TakeTransmissions ==
    /\ UNCHANGED pvars
    /\ dpc = "fresh"
    /\ \E okset \in SUBSET Tids :
         LET r == TakeFromWorkers(0, ready, <<>>, okset) IN
         /\ ready' = r.ready
         /\ batch' = r.sel
    /\ dpc' = "drained"
    /\ UNCHANGED <<storage, ledger, numWorkers, pending, proposed_batch, txclass, utask>>

NextDrain ==
    \/ TakeTransmissions
    \/ ProposerStore
    \/ ProposerReinsert

SpecDrain == InitDrain /\ [][NextDrain]_vars

(***************************************************************************)
(* Spec: the primary. Primary::run loads the proposal cache (each pending  *)
(* certificate goes through sync_with_certificate_from_peer) and then      *)
(* starts the handlers: the batch proposer and the round-increment         *)
(* handler run concurrently, clients push transmissions to the worker.     *)
(* Every step of a task runs up to its next suspension point.              *)
(***************************************************************************)
\* Primary::new, the start of Primary::run and of load_proposal_cache: one
\* worker, an empty storage at the round of the ledger (a new ledger, or one
\* that has committed the certificates below the pending ones), and the
\* content of the proposal cache (latest certificate round, proposed batch,
\* pending certificates) written to the primary
Init ==
    /\ numWorkers = 1
    /\ ready = [w \in Workers |-> <<>>]
    /\ pending = [w \in Workers |-> {}]
    /\ txclass = [id \in Tids |-> IF id % 2 = 1 THEN "sol" ELSE "txn"]
    /\ \E committed \in BOOLEAN :
         LET round == IF committed THEN MaxCacheRound ELSE 1 IN
         /\ storage = [round |-> round, gc |-> Max(0, round - MaxGcRounds),
                       certs |-> {}, tx |-> {}]
         /\ ledger = [tx |-> {}, up |-> TRUE,
                      certs |-> {<<u, r, 0>> : u \in Validators, r \in 1..(round - 1)}]
    /\ utask = [u \in UTasks |-> IdleTask]
    /\ batch = <<>>
    /\ dpc = "idle"
    /\ bft \in BOOLEAN
    /\ propose_lock \in {0, MaxCacheRound}
    /\ proposed_batch \in {NoProposal, [some |-> TRUE, tx |-> {NumPushTids}]}
    /\ lock_holder = None
    /\ signed_proposals = [v \in Validators \ {Self} |-> 0]
    /\ \E own \in BOOLEAN, others \in 0..(NumValidators - 1) :
         pend = {CacheCert(v, MaxCacheRound) :
                    v \in {u \in Validators : (u = Self /\ own) \/ (u # Self /\ u <= others)}}
    /\ pc = [t \in Tasks |-> IF t = "load" THEN "ld_next" ELSE "idle"]
    /\ loc = [t \in Tasks |-> LocIdle]
    /\ stack = <<>>
    /\ formed = [k \in Validators \X Rounds |-> 0]
    /\ headers = <<>>
    /\ sent = NoSent
    /\ lastins = NoInsert
    /\ tm = TmZero
    /\ lsv = LsZero
    /\ bsy = BsZero
    /\ pcache = NoCache

\* Mutex::lock on propose_lock succeeds when no guard is alive
LockFree_always(holder) == TRUE
LockFree(holder) == holder = None

\* the batch proposer's propose_lock.try_lock().is_err() is false when no
\* guard is alive; the guard try_lock returns is dropped at once
TryLockSucceeds_always(holder) == TRUE
TryLockSucceeds(holder) == holder = None

\* where task t continues when its call of propose_batch or of
\* try_increment_to_the_next_round returns Ok (ok) or Err: the handlers log
\* and loop, sync_with_batch_header_from_peer propagates the error and
\* load_proposal_cache goes on with the next pending certificate
RetPc(t, ok) == IF t = "load" THEN (IF ok THEN "sy_fetch" ELSE "ld_next") ELSE "idle"
RetStack(t, ok) == IF t = "load" /\ ~ok THEN <<>> ELSE stack

\* task t returns from propose_batch / try_increment_to_the_next_round
Return(t, ok) ==
    /\ pc' = [pc EXCEPT ![t] = RetPc(t, ok)]
    /\ loc' = [loc EXCEPT ![t] = LocIdle]
    /\ stack' = RetStack(t, ok)

\* the batch proposer wakes up: it goes on to propose_batch when try_lock
\* on propose_lock succeeds
Tick ==
    /\ pc["tick"] = "idle"
    /\ pc["load"] = "done"
    /\ TryLockSucceeds(lock_holder)
    /\ pc' = [pc EXCEPT !["tick"] = "pb_lock"]
    /\ lastins' = NoInsert
    /\ UNCHANGED <<storage, ready, proposed_batch, propose_lock, lock_holder,
                   signed_proposals, pend, loc, stack, formed, headers, sent>>
    /\ UNCHANGED wvars

\* propose_batch_lite: self.propose_lock.lock().await
pb_lock(t) ==
    /\ pc[t] = "pb_lock"
    /\ LockFree(lock_holder)
    /\ lock_holder' = t
    /\ pc' = [pc EXCEPT ![t] = "pb_check"]
    /\ lastins' = NoInsert
    /\ UNCHANGED <<storage, ready, proposed_batch, propose_lock,
                   signed_proposals, pend, loc, stack, formed, headers, sent>>
    /\ UNCHANGED wvars

\* propose_batch_lite from reading the round to the readiness check: what
\* the call does next; soon is the outcome of check_proposal_timestamp
ProposeOutcome_noquorum(round, soon) ==
    IF round < propose_lock THEN "skip"
    ELSE IF soon THEN "skip"
    ELSE IF ContainsCertificateInRoundFrom(storage, round, Self)
         THEN (IF bft THEN "bft" ELSE "skip")
    ELSE IF round = propose_lock THEN "skip"
    ELSE IF ~ledger.up THEN "err"
    ELSE "go"
\* a variant without the return for a round that is already recorded
ProposeOutcome_retry(round, soon) ==
    IF round < propose_lock THEN "skip"
    ELSE IF soon THEN "skip"
    ELSE IF ContainsCertificateInRoundFrom(storage, round, Self)
         THEN (IF bft THEN "bft" ELSE "skip")
    ELSE IF ~ledger.up THEN "err"
    ELSE IF round > 1 /\ ~QuorumInRound(storage, round - 1) THEN "skip"
    ELSE "go"
ProposeOutcome(round, soon) ==
    IF round < propose_lock THEN "skip"
    ELSE IF soon THEN "skip"
    ELSE IF ContainsCertificateInRoundFrom(storage, round, Self)
         THEN (IF bft THEN "bft" ELSE "skip")
    ELSE IF round = propose_lock THEN "skip"
    ELSE IF ~ledger.up THEN "err"
    ELSE IF round > 1 /\ ~QuorumInRound(storage, round - 1) THEN "skip"
    ELSE "go"

pb_check_with(t, soon) ==
    /\ pc[t] = "pb_check"
    /\   LET round == storage.round
             out == ProposeOutcome(round, soon)
         IN  CASE out = "skip" -> lock_holder' = None /\ Return(t, TRUE)
               [] out = "err" -> lock_holder' = None /\ Return(t, FALSE)
               [] out = "bft" ->
                    /\ pc' = [pc EXCEPT ![t] = "pb_round_bft"]
                    /\ UNCHANGED <<lock_holder, loc, stack>>
               [] out = "go" ->
                    /\ pc' = [pc EXCEPT ![t] = "pb_drain"]
                    /\ loc' = [loc EXCEPT ![t].round = round,
                                          ![t].prev = {c.id : c \in CertificatesForRound(storage, round - 1)}]
                    /\ UNCHANGED <<lock_holder, stack>>
    /\ lastins' = NoInsert
    /\ UNCHANGED <<storage, ready, proposed_batch, propose_lock,
                   signed_proposals, pend, formed, headers, sent>>
    /\ UNCHANGED wvars0

\* the same with the clock left out: check_proposal_timestamp fails or not
pb_check(t) == \E soon \in BOOLEAN : pb_check_with(t, soon) /\ UNCHANGED tm

\* the storage pointer stays within the rounds of the model
CanIncrement(current) == current + 1 <= MaxRound

\* propose_batch_lite, own certificate present: the reply of the BFT to
\* send_primary_round_to_bft; a BFT that is ready has advanced the storage
pb_round_bft(t) ==
    /\ pc[t] = "pb_round_bft"
    /\ \E reply \in {"ready", "notready", "err"} :
         /\ IF reply = "ready"
            THEN /\ CanIncrement(storage.round)
                 /\ storage' = IncrementToNextRound(storage, storage.round)
            ELSE storage' = storage
         /\ lock_holder' = None
         /\ Return(t, reply # "err")
    /\ lastins' = NoInsert
    /\ UNCHANGED <<ready, proposed_batch, propose_lock, signed_proposals, pend, formed, headers, sent>>
    /\ UNCHANGED wvars

\* propose_batch_lite takes the transmissions from the workers
pb_drain(t) ==
    /\ pc[t] = "pb_drain"
    /\ \E okset \in SUBSET (1..NumSpecTids) :
         LET r == TakeFromWorkers(0, ready, <<>>, okset) IN
         /\ ready' = r.ready
         /\ loc' = [loc EXCEPT ![t].txs = r.sel]
    /\ pc' = [pc EXCEPT ![t] = "pb_sign"]
    /\ lastins' = NoInsert
    /\ UNCHANGED <<storage, proposed_batch, propose_lock, lock_holder,
                   signed_proposals, pend, stack, formed, headers, sent>>
    /\ UNCHANGED wvars

\* the signatures the loop over other_acc adds to the proposal: each of the
\* other validators' accounts signs the batch id inside the primary
ForgedSignatures == {[signer |-> v, by |-> "primary"] : v \in Validators \ {Self}}

\* propose_batch_lite writes the round into the lock, signs the header,
\* builds the proposal and forges the signatures of the other validators: a
\* failure of the header or proposal reinserts the transmissions, a failure of
\* a forged signature returns the error at once
pb_sign_with(t, out) ==
    /\ pc[t] = "pb_sign"
    /\ propose_lock' = loc[t].round
    /\   CASE out = "ok" ->
                /\ pc' = [pc EXCEPT ![t] = "pb_store"]
                /\ loc' = [loc EXCEPT ![t].sigs = ForgedSignatures]
                /\ UNCHANGED <<ready, lock_holder, stack>>
           [] out = "header" ->
                /\ ready' = ReinsertAll(loc[t].txs, ready)
                /\ lock_holder' = None
                /\ Return(t, FALSE)
           [] out = "signature" ->
                /\ ready' = ready
                /\ lock_holder' = None
                /\ Return(t, FALSE)
    /\ headers' = IF out = "header" THEN headers ELSE Append(headers, loc[t].round)
    /\ lastins' = NoInsert
    /\ UNCHANGED <<storage, proposed_batch, signed_proposals, pend, formed, sent>>
    /\ UNCHANGED wvars0

SignOutcomes == {"ok", "header", "signature"}

\* the same with the clock left out
pb_sign(t) == \E out \in SignOutcomes : pb_sign_with(t, out) /\ UNCHANGED tm

\* the certificate author a forms for round r, the k-th of them
NewCert(a, r, prev, txs) ==
    [id |-> <<a, r, formed[<<a, r>>] + 1>>, author |-> a, round |-> r,
     prev |-> prev, tx |-> txs]

\* the steps store_and_broadcast_certificate_lite has taken (loc[t].log)
\* after insert_certificate returned Ok: without a BFT sender the broadcast
\* of BatchCertified follows at once
StepsOfInsert == IF bft THEN <<"insert">> ELSE <<"insert", "broadcast">>
\* and after send_primary_certificate_to_bft returned Ok
StepsOfBftReply_swapped == <<"broadcast", "bft">>
StepsOfBftReply == <<"bft", "broadcast">>

\* the ? on insert_certificate: the sending of the certificate to the BFT is
\* reached when the insertion returned Ok; res is the result of the insertion
InsertedOk_always(res) == TRUE
InsertedOk(res) == res = "ok"

\* store_and_broadcast_certificate_lite up to the insertion: to_certificate
\* forms the certificate, insert_certificate stores it; on an error the
\* caller reinserts the transmissions and returns the error
pb_store_with(t, certified) ==
    /\ pc[t] = "pb_store"
    /\   LET c == NewCert(Self, loc[t].round, loc[t].prev, Range(loc[t].txs))
             res == InsertCertificateCheck(storage, c, Range(loc[t].txs))
         IN  IF certified /\ res = "ok"
             THEN /\ formed' = [formed EXCEPT ![<<Self, c.round>>] = @ + 1]
                  /\ storage' = InsertCertificate(storage, c)
                  /\ lastins' = [on |-> TRUE, cert |-> c]
                  /\ pc' = [pc EXCEPT ![t] = IF bft THEN "pb_cert_bft" ELSE "pb_inc"]
                  /\ loc' = [loc EXCEPT ![t].log = StepsOfInsert]
                  /\ UNCHANGED <<ready, lock_holder, stack, sent>>
             ELSE /\ formed' = IF certified
                               THEN [formed EXCEPT ![<<Self, c.round>>] = @ + 1]
                               ELSE formed
                  /\ storage' = storage
                  /\ lastins' = NoInsert
                  /\ sent' = IF certified /\ bft /\ InsertedOk(res)
                             THEN SendToBft(c.id) ELSE sent
                  /\ ready' = ReinsertAll(loc[t].txs, ready)
                  /\ lock_holder' = None
                  /\ Return(t, FALSE)
    /\ UNCHANGED <<proposed_batch, propose_lock, signed_proposals, pend, headers>>
    /\ UNCHANGED wvars0

\* the same with the clock left out
pb_store(t) == \E certified \in BOOLEAN : pb_store_with(t, certified) /\ UNCHANGED tm

\* store_and_broadcast_certificate_lite: the reply of the BFT to
\* send_primary_certificate_to_bft
pb_cert_bft(t) ==
    /\ pc[t] = "pb_cert_bft"
    /\ \E ok \in BOOLEAN :
         IF ok
         THEN /\ pc' = [pc EXCEPT ![t] = "pb_inc"]
              /\ loc' = [loc EXCEPT ![t].log = @ \o StepsOfBftReply]
              /\ UNCHANGED <<ready, lock_holder, stack>>
         ELSE /\ ready' = ReinsertAll(loc[t].txs, ready)
              /\ lock_holder' = None
              /\ Return(t, FALSE)
    /\ sent' = SendToBft(<<Self, loc[t].round, formed[<<Self, loc[t].round>>]>>)
    /\ lastins' = NoInsert
    /\ UNCHANGED <<storage, proposed_batch, propose_lock, signed_proposals, pend, formed, headers>>
    /\ UNCHANGED wvars

\* try_increment_to_the_next_round[_lite](next) up to its reading of the
\* current round: the storage after the fast-forward loop
AfterFastForward(st, next) ==
    IF st.round + MaxGcRounds >= next THEN FastForward(st, st.round, next) ELSE st

\* a variant in which the round increment under the guard calls propose_batch,
\* as try_increment_to_the_next_round does
ToFakeProposals_proposing(t) ==
    /\ lock_holder' = lock_holder
    /\ pc' = [pc EXCEPT ![t] = "pb_lock"]
    /\ loc' = loc
    /\ stack' = stack

\* propose_batch_lite returns Ok(round): the guard is dropped and
\* propose_batch goes on with fake_proposal for validator 1
ToFakeProposals(t) ==
    /\ lock_holder' = None
    /\ pc' = [pc EXCEPT ![t] = "fk"]
    /\ loc' = [loc EXCEPT ![t] = [LocIdle EXCEPT !.round = loc[t].round, !.vid = 1]]
    /\ stack' = stack

\* try_increment_to_the_next_round_lite(round + 1) up to the increment
pb_inc(t) ==
    /\ pc[t] = "pb_inc"
    /\ LET next == loc[t].round + 1
           st == AfterFastForward(storage, next)
       IN  /\ next - 1 <= MaxRound
           /\ storage' = st
           /\ proposed_batch' = IF st # storage THEN NoProposal ELSE proposed_batch
           /\ IF st.round < next
              THEN /\ pc' = [pc EXCEPT ![t] = IF bft THEN "pb_inc_bft" ELSE "pb_inc_nar"]
                   /\ loc' = [loc EXCEPT ![t].cur = st.round,
                                         ![t].log = Append(@, "increment")]
                   /\ UNCHANGED <<lock_holder, stack>>
              ELSE ToFakeProposals(t)
    /\ lastins' = NoInsert
    /\ UNCHANGED <<ready, propose_lock, signed_proposals, pend, formed, headers, sent>>
    /\ UNCHANGED wvars

\* try_increment_to_the_next_round_lite without a BFT: the storage advances
pb_inc_nar(t) ==
    /\ pc[t] = "pb_inc_nar"
    /\ CanIncrement(loc[t].cur)
    /\ storage' = IncrementToNextRound(storage, loc[t].cur)
    /\ ToFakeProposals(t)
    /\ lastins' = NoInsert
    /\ UNCHANGED <<ready, proposed_batch, propose_lock, signed_proposals, pend, formed, headers, sent>>
    /\ UNCHANGED wvars

\* try_increment_to_the_next_round_lite with a BFT: the reply to
\* send_primary_round_to_bft; an error fails the certificate's storing
pb_inc_bft(t) ==
    /\ pc[t] = "pb_inc_bft"
    /\ \E reply \in {"ready", "notready", "err"} :
         CASE reply = "ready" ->
                /\ CanIncrement(loc[t].cur)
                /\ storage' = IncrementToNextRound(storage, loc[t].cur)
                /\ ready' = ready
                /\ ToFakeProposals(t)
           [] reply = "notready" ->
                /\ storage' = storage
                /\ ready' = ready
                /\ ToFakeProposals(t)
           [] reply = "err" ->
                /\ storage' = storage
                /\ ready' = ReinsertAll(loc[t].txs, ready)
                /\ lock_holder' = None
                /\ Return(t, FALSE)
    /\ lastins' = NoInsert
    /\ UNCHANGED <<proposed_batch, propose_lock, signed_proposals, pend, formed, headers, sent>>
    /\ UNCHANGED wvars

\* a variant whose loop calls fake_proposal for the same validator again
NextFakeProposal_again(t) ==
    /\ pc' = [pc EXCEPT ![t] = "fk"]
    /\ loc' = loc
    /\ stack' = stack

\* propose_batch after fake_proposal returned Ok for validator loc[t].vid
NextFakeProposal(t) ==
    IF loc[t].vid < NumValidators - 1
    THEN /\ pc' = [pc EXCEPT ![t] = "fk"]
         /\ loc' = [loc EXCEPT ![t].vid = @ + 1]
         /\ stack' = stack
    ELSE Return(t, TRUE)

\* fake_proposal(vid, round) up to the sending to the BFT: an empty batch on
\* the certificates of the previous round is signed, certified and inserted,
\* and the signature of the primary is cached in signed_proposals; an error
\* ends propose_batch
fk_with(t, certified) ==
    /\ pc[t] = "fk"
    /\   LET v == loc[t].vid
             round == loc[t].round
             prev == {c.id : c \in CertificatesForRound(storage, round - 1)}
             c == NewCert(v, round, prev, {})
             res == InsertCertificateCheck(storage, c, {})
         IN  IF certified /\ ledger.up /\ res = "ok"
             THEN /\ formed' = [formed EXCEPT ![<<v, round>>] = @ + 1]
                  /\ storage' = InsertCertificate(storage, c)
                  /\ lastins' = [on |-> TRUE, cert |-> c]
                  /\ sent' = sent
                  /\ IF signed_proposals[v] = round
                     THEN /\ signed_proposals' = signed_proposals
                          /\ NextFakeProposal(t)
                     ELSE /\ signed_proposals' = [signed_proposals EXCEPT ![v] = round]
                          /\ IF bft
                             THEN /\ pc' = [pc EXCEPT ![t] = "fk_bft"]
                                  /\ UNCHANGED <<loc, stack>>
                             ELSE NextFakeProposal(t)
             ELSE /\ formed' = IF certified /\ ledger.up
                               THEN [formed EXCEPT ![<<v, round>>] = @ + 1]
                               ELSE formed
                  /\ storage' = storage
                  /\ lastins' = NoInsert
                  /\ signed_proposals' = signed_proposals
                  /\ sent' = IF /\ certified /\ ledger.up /\ bft /\ InsertedOk(res)
                                /\ signed_proposals[v] # round
                             THEN SendToBft(c.id) ELSE sent
                  /\ Return(t, FALSE)
    /\ UNCHANGED <<ready, proposed_batch, propose_lock, lock_holder, pend, headers>>
    /\ UNCHANGED wvars

fk(t) == \E certified \in BOOLEAN : fk_with(t, certified)

\* fake_proposal: the reply of the BFT to send_primary_certificate_to_bft
fk_bft(t) ==
    /\ pc[t] = "fk_bft"
    /\ \E ok \in BOOLEAN :
         IF ok THEN NextFakeProposal(t) ELSE Return(t, FALSE)
    /\ sent' = SendToBft(<<loc[t].vid, loc[t].round, formed[<<loc[t].vid, loc[t].round>>]>>)
    /\ lastins' = NoInsert
    /\ UNCHANGED <<storage, ready, proposed_batch, propose_lock, lock_holder,
                   signed_proposals, pend, formed, headers>>
    /\ UNCHANGED wvars

\* Primary::propose_batch, the steps of task t in it
propose_batch(t) ==
    \/ pb_lock(t) \/ pb_check(t) \/ pb_round_bft(t) \/ pb_drain(t) \/ pb_sign(t)
    \/ pb_store(t) \/ pb_cert_bft(t) \/ pb_inc(t) \/ pb_inc_nar(t) \/ pb_inc_bft(t)
    \/ fk(t) \/ fk_bft(t)

\* the round-increment handler wakes up: with a quorum of certificates in
\* the next round it calls try_increment_to_the_next_round(next_round)
IncTick ==
    /\ pc["inc"] = "idle"
    /\ pc["load"] = "done"
    /\ ledger.up
    /\ QuorumInRound(storage, storage.round + 1)
    /\ pc' = [pc EXCEPT !["inc"] = "ti"]
    /\ loc' = [loc EXCEPT !["inc"].next = storage.round + 1]
    /\ lastins' = NoInsert
    /\ UNCHANGED <<storage, ready, proposed_batch, propose_lock, lock_holder,
                   signed_proposals, pend, stack, formed, headers, sent>>
    /\ UNCHANGED wvars

\* try_increment_to_the_next_round(next) up to the increment
ti(t) ==
    /\ pc[t] = "ti"
    /\ LET next == loc[t].next
           st == AfterFastForward(storage, next)
       IN  /\ next - 1 <= MaxRound
           /\ storage' = st
           /\ proposed_batch' = IF st # storage THEN NoProposal ELSE proposed_batch
           /\ IF st.round < next
              THEN /\ pc' = [pc EXCEPT ![t] = IF bft THEN "ti_bft" ELSE "ti_nar"]
                   /\ loc' = [loc EXCEPT ![t].cur = st.round]
                   /\ stack' = stack
              ELSE Return(t, TRUE)
    /\ lastins' = NoInsert
    /\ UNCHANGED <<ready, propose_lock, lock_holder, signed_proposals, pend, formed, headers, sent>>
    /\ UNCHANGED wvars

\* try_increment_to_the_next_round without a BFT: the storage advances and
\* propose_batch is called
ti_nar(t) ==
    /\ pc[t] = "ti_nar"
    /\ CanIncrement(loc[t].cur)
    /\ storage' = IncrementToNextRound(storage, loc[t].cur)
    /\ pc' = [pc EXCEPT ![t] = "pb_lock"]
    /\ loc' = [loc EXCEPT ![t] = LocIdle]
    /\ lastins' = NoInsert
    /\ UNCHANGED <<ready, proposed_batch, propose_lock, lock_holder,
                   signed_proposals, pend, stack, formed, headers, sent>>
    /\ UNCHANGED wvars

\* try_increment_to_the_next_round with a BFT: the reply to
\* send_primary_round_to_bft; propose_batch is called when the BFT is ready
ti_bft(t) ==
    /\ pc[t] = "ti_bft"
    /\ \E reply \in {"ready", "notready", "err"} :
         CASE reply = "ready" ->
                /\ CanIncrement(loc[t].cur)
                /\ storage' = IncrementToNextRound(storage, loc[t].cur)
                /\ pc' = [pc EXCEPT ![t] = "pb_lock"]
                /\ loc' = [loc EXCEPT ![t] = LocIdle]
                /\ stack' = stack
           [] reply = "notready" -> storage' = storage /\ Return(t, TRUE)
           [] reply = "err" -> storage' = storage /\ Return(t, FALSE)
    /\ lastins' = NoInsert
    /\ UNCHANGED <<ready, proposed_batch, propose_lock, lock_holder,
                   signed_proposals, pend, formed, headers, sent>>
    /\ UNCHANGED wvars

try_increment_to_the_next_round(t) == ti(t) \/ ti_nar(t) \/ ti_bft(t)

\* load_proposal_cache: the loop over the pending certificates; when it ends
\* Primary::run starts the handlers
ld_next ==
    /\ pc["load"] = "ld_next"
    /\ IF pend = {}
       THEN /\ pc' = [pc EXCEPT !["load"] = "done"]
            /\ UNCHANGED <<pend, stack>>
       ELSE \E c \in pend :
              /\ pend' = pend \ {c}
              /\ stack' = <<[cert |-> c, todo |-> {}, mtx |-> {}]>>
              /\ pc' = [pc EXCEPT !["load"] = "sy_enter"]
    /\ lastins' = NoInsert
    /\ UNCHANGED <<storage, ready, proposed_batch, propose_lock, lock_holder,
                   signed_proposals, loc, formed, headers, sent>>
    /\ UNCHANGED wvars

Top == stack[Len(stack)]

\* sync_with_certificate_from_peer returns Ok to its caller: the loop of
\* load_proposal_cache or the loop over the missing previous certificates
PopFrame ==
    /\ stack' = SubSeq(stack, 1, Len(stack) - 1)
    /\ pc' = [pc EXCEPT !["load"] = IF Len(stack) = 1 THEN "ld_next" ELSE "sy_rec"]

\* an error propagates through every frame to load_proposal_cache
AbortSync ==
    /\ stack' = <<>>
    /\ pc' = [pc EXCEPT !["load"] = "ld_next"]

\* sync_with_certificate_from_peer::<true> from its start, and
\* sync_with_batch_header_from_peer up to try_increment_to_the_next_round
sy_enter ==
    /\ pc["load"] = "sy_enter"
    /\ LET c == Top.cert
           behind == QuorumInRound(storage, c.round) /\ c.round > storage.round
           far == c.round > storage.round + MaxGcRounds
       IN  IF c.round <= storage.gc \/ ContainsCertificate(storage, c.id)
           THEN PopFrame /\ loc' = loc
           ELSE IF ~ledger.up
           THEN AbortSync /\ loc' = loc
           ELSE IF behind \/ far
           THEN /\ pc' = [pc EXCEPT !["load"] = "ti"]
                /\ loc' = [loc EXCEPT !["load"].next = c.round]
                /\ stack' = stack
           ELSE /\ pc' = [pc EXCEPT !["load"] = "sy_fetch"]
                /\ UNCHANGED <<loc, stack>>
    /\ lastins' = NoInsert
    /\ UNCHANGED <<storage, ready, proposed_batch, propose_lock, lock_holder,
                   signed_proposals, pend, formed, headers, sent>>
    /\ UNCHANGED wvars

\* fetch_missing_previous_certificates returns early for these rounds
SkipPreviousCertificates_late(round, gc) == round = 1 \/ round <= gc + 2
\* a variant that never returns early
SkipPreviousCertificates_never(round, gc) == FALSE
SkipPreviousCertificates(round, gc) == round = 1 \/ round <= gc + 1

\* fetch_missing_certificates: the ids that are requested from the peer
MissingCertificates(c) ==
    IF SkipPreviousCertificates(c.round, storage.gc) THEN {}
    ELSE {id \in c.prev : id \notin ledger.certs /\ ~ContainsCertificate(storage, id)}

\* Worker::get_transmission finds the transmission
GetTransmission(w, id) ==
    \/ ReadyContains(ready[w], id)
    \/ StorageContainsTransmission(id)
    \/ (proposed_batch.some /\ id \in proposed_batch.tx)

\* fetch_missing_transmissions: the ids the workers are asked for
MissingTransmissions(c) ==
    IF c.round <= storage.gc THEN {}
    ELSE {id \in c.tx : ~StorageContainsTransmission(id)}

\* sync_with_batch_header_from_peer: the missing previous certificates are
\* requested from the peer (answered says whether every request succeeds),
\* the missing transmissions are taken from the workers
sy_fetch ==
    /\ pc["load"] = "sy_fetch"
    /\ \E answered \in BOOLEAN :
         LET c == Top.cert
             mc == MissingCertificates(c)
             mt == MissingTransmissions(c)
             found == \A id \in mt : GetTransmission(assign_to_worker(id, numWorkers), id)
         IN  IF (mc # {} /\ ~answered) \/ ~found \/ \E id \in mc : ~KnownCertificate(id)
             THEN AbortSync
             ELSE /\ stack' = [stack EXCEPT ![Len(stack)].todo = {CertById(id) : id \in mc},
                                            ![Len(stack)].mtx = mt]
                  /\ pc' = [pc EXCEPT !["load"] = "sy_rec"]
    /\ lastins' = NoInsert
    /\ UNCHANGED <<storage, ready, proposed_batch, propose_lock, lock_holder,
                   signed_proposals, pend, loc, formed, headers, sent>>
    /\ UNCHANGED wvars

\* sync_with_batch_header_from_peer: the loop over the missing previous
\* certificates calls sync_with_certificate_from_peer for each
sy_rec ==
    /\ pc["load"] = "sy_rec"
    /\ IF Top.todo = {}
       THEN /\ pc' = [pc EXCEPT !["load"] = "sy_store"]
            /\ stack' = stack
       ELSE \E d \in Top.todo :
              /\ stack' = Append([stack EXCEPT ![Len(stack)].todo = @ \ {d}],
                                 [cert |-> d, todo |-> {}, mtx |-> {}])
              /\ pc' = [pc EXCEPT !["load"] = "sy_enter"]
    /\ lastins' = NoInsert
    /\ UNCHANGED <<storage, ready, proposed_batch, propose_lock, lock_holder,
                   signed_proposals, pend, loc, formed, headers, sent>>
    /\ UNCHANGED wvars

\* sync_with_certificate_from_peer after sync_with_batch_header_from_peer:
\* the certificate is inserted and sent to the BFT (accepted says whether the
\* BFT accepts it)
sy_store ==
    /\ pc["load"] = "sy_store"
    /\ \E accepted \in BOOLEAN :
         LET c == Top.cert
             res == InsertCertificateCheck(storage, c, Top.mtx)
         IN  IF ~ContainsCertificate(storage, c.id)
             THEN IF res # "ok"
                  THEN /\ storage' = storage
                       /\ lastins' = NoInsert
                       /\ sent' = IF bft /\ InsertedOk(res) THEN SendToBft(c.id) ELSE sent
                       /\ AbortSync
                  ELSE /\ storage' = InsertCertificate(storage, c)
                       /\ lastins' = [on |-> TRUE, cert |-> c]
                       /\ sent' = IF bft /\ InsertedOk(res) THEN SendToBft(c.id) ELSE sent
                       /\ IF bft /\ ~accepted THEN AbortSync ELSE PopFrame
             ELSE /\ storage' = storage
                  /\ lastins' = NoInsert
                  /\ sent' = sent
                  /\ PopFrame
    /\ UNCHANGED <<ready, proposed_batch, propose_lock, lock_holder,
                   signed_proposals, pend, loc, formed, headers>>
    /\ UNCHANGED wvars

sync_with_certificate_from_peer == sy_enter \/ sy_fetch \/ sy_rec \/ sy_store

\* a client pushes a transmission and Worker::process_unconfirmed_* accepts
\* it (SpecWorker has the steps of the call)
ClientPush(id) ==
    /\ pc["load"] = "done"
    /\ ~contains_transmission(assign_to_worker(id, numWorkers), id)
    /\ ready' = [ready EXCEPT ![assign_to_worker(id, numWorkers)] = ReadyInsert(@, id)]
    /\ lastins' = NoInsert
    /\ UNCHANGED <<storage, proposed_batch, propose_lock, lock_holder,
                   signed_proposals, pend, pc, loc, stack, formed, headers, sent>>
    /\ UNCHANGED wvars

Next ==
    \/ ld_next
    \/ sync_with_certificate_from_peer
    \/ Tick
    \/ IncTick
    \/ \E t \in Tasks : propose_batch(t)
    \/ \E t \in Tasks : try_increment_to_the_next_round(t)
    \/ \E id \in 1..NumSpecTids : ClientPush(id)

Spec == Init /\ [][Next]_vars

\* SpecLoad: Spec with the scheduling of the program: run() awaits
\* load_proposal_cache and the runtime runs a task that can take a step
SpecLoad == Init /\ [][Next]_vars /\ WF_vars(Next)

\* SpecLock: Spec with the scheduling of the tasks: the runtime polls every
\* task that can go on, so a task inside propose_batch takes its next step
\* whatever the other tasks do
SpecLock == Init /\ [][Next]_vars /\ \A t \in Tasks : WF_vars(propose_batch(t))

(***************************************************************************)
(* SpecRestart: the primary is shut down and run again. The first run      *)
(* finds no proposal cache; shut_down writes the cache, the next run of    *)
(* the node builds the storage from the ledger and load_proposal_cache     *)
(* restores the cache. The aborted tasks stop where they stand.            *)
(***************************************************************************)
InitRestart ==
    /\ Init
    /\ propose_lock = 0
    /\ proposed_batch = NoProposal
    /\ pend = {}

\* the round of the proposal of a cache
ProposalRound(proposal) == MaxCacheRound

\* Storage::get_pending_certificates: the certificates of the storage that
\* the ledger does not hold
PendingCertificates(st) == {c \in st.certs : c.id \notin ledger.certs}

\* a variant that always writes 0 as the latest round
LatestRoundToCache_zero(proposal, lock) == 0

\* shut_down: the latest round of the cache is the round of the proposal, or
\* the value of propose_lock without a proposal
LatestRoundToCache(proposal, lock) ==
    IF proposal.some THEN ProposalRound(proposal) ELSE lock

\* shut_down aborts the tasks, takes the proposal and writes the proposal
\* cache; stored tells whether writing the file succeeds; the BFT the
\* certificates were sent to ends with the run
shut_down(stored) ==
    /\ \E t \in Tasks : pc[t] # "down"
    /\ pc' = [t \in Tasks |-> "down"]
    /\ loc' = [t \in Tasks |-> LocIdle]
    /\ stack' = <<>>
    /\ lock_holder' = None
    /\ lastins' = NoInsert
    /\ proposed_batch' = NoProposal
    /\ pcache' = IF stored
                 THEN [exists |-> TRUE,
                       latest_round |-> LatestRoundToCache(proposed_batch, propose_lock),
                       proposal |-> proposed_batch,
                       signed_proposals |-> signed_proposals,
                       pending |-> PendingCertificates(storage),
                       lost |-> pcache.lost,
                       runs |-> pcache.runs]
                 ELSE [pcache EXCEPT !.lost = TRUE]
    /\ sent' = NoSent
    /\ UNCHANGED <<storage, ready, propose_lock, signed_proposals, pend, formed, headers>>
    /\ UNCHANGED <<ledger, numWorkers, pending, txclass, utask, batch, dpc, bft, tm,
                   lsv, bsy>>

\* the round of a storage built from the ledger
LedgerRound ==
    IF ledger.certs = {} THEN 1
    ELSE 1 + (CHOOSE r \in Rounds : /\ \E id \in ledger.certs : id[2] = r
                                    /\ \A id \in ledger.certs : id[2] <= r)

\* the node is started again: new storage and workers, and Primary::run up
\* to the loop of load_proposal_cache over the pending certificates; loaded
\* tells whether reading an existing file succeeds (if not, run fails)
run(loaded) ==
    /\ \A t \in Tasks : pc[t] = "down"
    /\ pcache.runs < MaxRuns
    /\ pcache' = [pcache EXCEPT !.runs = @ + 1]
    /\ storage' = [round |-> LedgerRound, gc |-> Max(0, LedgerRound - MaxGcRounds),
                   certs |-> {}, tx |-> {}]
    /\ ready' = [w \in Workers |-> <<>>]
    /\ lock_holder' = None
    /\ loc' = [t \in Tasks |-> LocIdle]
    /\ stack' = <<>>
    /\ lastins' = NoInsert
    /\ IF pcache.exists /\ ~loaded
       THEN /\ pc' = pc
            /\ proposed_batch' = NoProposal
            /\ signed_proposals' = [v \in Validators \ {Self} |-> 0]
            /\ propose_lock' = 0
            /\ pend' = {}
       ELSE /\ pc' = [t \in Tasks |-> IF t = "load" THEN "ld_next" ELSE "idle"]
            /\ proposed_batch' = IF pcache.exists THEN pcache.proposal ELSE NoProposal
            /\ signed_proposals' = IF pcache.exists THEN pcache.signed_proposals
                                   ELSE [v \in Validators \ {Self} |-> 0]
            /\ propose_lock' = IF pcache.exists THEN pcache.latest_round ELSE 0
            /\ pend' = IF pcache.exists THEN pcache.pending ELSE {}
    /\ UNCHANGED <<formed, headers, sent>>
    /\ UNCHANGED <<ledger, numWorkers, pending, txclass, utask, batch, dpc, bft, tm,
                   lsv, bsy>>

NextRestart ==
    \/ Next
    \/ \E stored \in BOOLEAN : shut_down(stored)
    \/ \E loaded \in BOOLEAN : run(loaded)

SpecRestart == InitRestart /\ [][NextRestart]_vars

(***************************************************************************)
(* SpecTime: the batch proposer of a new primary with the clock. Every     *)
(* now() reads an arbitrary timestamp; the header of a proposal carries    *)
(* the reading of line 553, which becomes latest_proposed_batch_timestamp  *)
(* and the timestamp of the certificate made from the proposal.            *)
(***************************************************************************)
\* i64::checked_sub: None when the difference is not a timestamp
checked_sub_wrapping(a, b) ==
    [some |-> TRUE, val |-> ((a - b - TsMin) % (2 ^ TsBits)) + TsMin]
checked_sub(a, b) ==
    IF a - b \in Times THEN [some |-> TRUE, val |-> a - b]
    ELSE [some |-> FALSE, val |-> 0]

\* check_proposal_timestamp: the timestamp to check against
PreviousTimestamp(previous_round) ==
    IF ContainsCertificateInRoundFrom(storage, previous_round, Self)
    THEN tm.own[previous_round]
    ELSE tm.latest

\* check_proposal_timestamp(previous_round, own address, timestamp)
check_proposal_timestamp(previous_round, timestamp) ==
    LET elapsed == checked_sub(timestamp, PreviousTimestamp(previous_round)) IN
    IF ~elapsed.some THEN "err"
    ELSE IF elapsed.val < MinBatchDelayInSecs THEN "err"
    ELSE "ok"

InitTime ==
    /\ numWorkers = 1
    /\ ready = [w \in Workers |-> <<>>]
    /\ pending = [w \in Workers |-> {}]
    /\ txclass = [id \in Tids |-> IF id % 2 = 1 THEN "sol" ELSE "txn"]
    /\ storage = [round |-> 1, gc |-> 0, certs |-> {}, tx |-> {}]
    /\ ledger = [tx |-> {}, up |-> TRUE, certs |-> {}]
    /\ utask = [u \in UTasks |-> IdleTask]
    /\ batch = <<>>
    /\ dpc = "idle"
    /\ bft \in BOOLEAN
    /\ propose_lock = 0
    /\ proposed_batch = NoProposal
    /\ lock_holder = None
    /\ signed_proposals = [v \in Validators \ {Self} |-> 0]
    /\ pend = {}
    /\ pc = [t \in Tasks |-> IF t = "tick" THEN "idle" ELSE "done"]
    /\ loc = [t \in Tasks |-> LocIdle]
    /\ stack = <<>>
    /\ formed = [k \in Validators \X Rounds |-> 0]
    /\ headers = <<>>
    /\ sent = NoSent
    /\ lastins = NoInsert
    /\ tm = TmZero
    /\ lsv = LsZero
    /\ bsy = BsZero
    /\ pcache = NoCache

\* propose_batch_lite from reading the round to the readiness check, with
\* the reading of the clock passed to check_proposal_timestamp
pb_check_timed(t) ==
    \E now \in Times :
        LET res == check_proposal_timestamp(Max(0, storage.round - 1), now) IN
        /\ pb_check_with(t, res = "err")
        /\ tm' = [tm EXCEPT !.now = now, !.res = res]

\* propose_batch_lite signs the header with the reading of the clock of line
\* 553; a proposal that was built sets latest_proposed_batch_timestamp
pb_sign_timed(t) ==
    \E out \in SignOutcomes, current_timestamp \in Times :
        /\ pb_sign_with(t, out)
        /\ tm' = IF out = "header" THEN tm
                 ELSE [tm EXCEPT !.latest = current_timestamp]

\* store_and_broadcast_certificate_lite up to the insertion: the certificate
\* has the timestamp of the proposal
pb_store_timed(t) ==
    \E certified \in BOOLEAN :
        /\ pb_store_with(t, certified)
        /\ tm' = IF lastins'.on
                 THEN [tm EXCEPT !.own[loc[t].round] = tm.latest]
                 ELSE tm

propose_batch_timed(t) ==
    \/ pb_lock(t) \/ pb_check_timed(t) \/ pb_round_bft(t) \/ pb_drain(t)
    \/ pb_sign_timed(t) \/ pb_store_timed(t) \/ pb_cert_bft(t) \/ pb_inc(t)
    \/ pb_inc_nar(t) \/ pb_inc_bft(t) \/ fk(t) \/ fk_bft(t)

NextTime ==
    \/ Tick
    \/ \E t \in Tasks : propose_batch_timed(t)
    \/ \E id \in 1..NumSpecTids : ClientPush(id)

SpecTime == InitTime /\ [][NextTime]_vars

(***************************************************************************)
(* SpecLive: the batch proposer of a new primary without a BFT, with the   *)
(* scheduling of the program. The proposer loop wakes up for ever and the  *)
(* runtime runs every task that can take a step (weak fairness). No step   *)
(* fails for ever: a step that is attempted again and again eventually has *)
(* its successful outcome (strong fairness on that outcome).               *)
(***************************************************************************)
InitLive ==
    /\ InitTime
    /\ ~bft

\* Primary::propose_batch without a BFT sender, the steps of task t in it
propose_batch_nar(t) ==
    \/ pb_lock(t) \/ pb_check(t) \/ pb_drain(t) \/ pb_sign(t) \/ pb_store(t)
    \/ pb_inc(t) \/ pb_inc_nar(t) \/ fk(t)

NextLive ==
    \/ Tick
    \/ \E t \in Tasks : propose_batch_nar(t)
    \/ \E id \in 1..NumSpecTids : ClientPush(id)

Fairness ==
    /\ WF_vars(Tick)
    /\ \A t \in Tasks :
         /\ WF_vars(propose_batch_nar(t))
         /\ SF_vars(pb_check_with(t, FALSE) /\ UNCHANGED tm)
         /\ SF_vars(pb_sign_with(t, "ok") /\ UNCHANGED tm)
         /\ SF_vars(pb_store_with(t, TRUE) /\ UNCHANGED tm)
         /\ SF_vars(fk_with(t, TRUE))

SpecLive == InitLive /\ [][NextLive]_vars /\ Fairness

(***************************************************************************)
(* SpecAtomicity: two validators run check_next_block on the same block.   *)
(* The block carries a quorum subdag: certificates of the rounds 2 to      *)
(* anchor - 1 and the leader certificate of the anchor round. The ledger   *)
(* of both validators holds the same committees; each validator has its    *)
(* own latest committed round.                                             *)
(***************************************************************************)
Authors == 0..(NumAuthors - 1)

AnchorRound == 2 * MaxAnchorIndex

\* Committee::COMMITTEE_LOOKBACK_RANGE
CommitteeLookbackRange == 2

\* the committees a ledger may hold for a round
Committees == {"c0", "c1"}

\* a variant that takes the even round at or below the round
PreviousRound_even(round) == IF round % 2 = 0 THEN round ELSE Max(0, round - 1)

\* the round get_committee_lookback_for_round(round) counts the range back
\* from
PreviousRound(round) == IF round % 2 = 0 THEN Max(0, round - 1) ELSE Max(0, round - 2)

\* the round whose committee get_committee_lookback_for_round(round) asks for
CommitteeLookbackRound(round) == Max(0, PreviousRound(round) - CommitteeLookbackRange)

EvenRounds == {r \in 2..(AnchorRound - 2) : r % 2 = 0}

LookbackRounds == {CommitteeLookbackRound(r) : r \in EvenRounds}

SubdagCertIds(r) == {<<a, r>> : a \in Authors}

SubdagCertsOfRound(r) ==
    {[id |-> <<a, r>>, author |-> a, round |-> r, prev |-> P] :
        a \in Authors, P \in IF r <= 2 THEN {{}} ELSE SUBSET SubdagCertIds(r - 1)}

\* a subdag has at most one certificate of an author in a round
Subdags ==
    {S \in SUBSET (UNION {SubdagCertsOfRound(r) : r \in 2..(AnchorRound - 1)}) :
        \A c, d \in S : c.id = d.id => c = d}

\* the blocks given to check_next_block: committee[r] is the committee the
\* ledger returns for round r (None: it has none), elect[c][r] is the value
\* of Committee::get_leader of committee c for round r
Blocks ==
    {[anchor |-> AnchorRound, certs |-> S \cup {l}, leader |-> l,
      committee |-> k, elect |-> e] :
        S \in Subdags, l \in SubdagCertsOfRound(AnchorRound),
        k \in [LookbackRounds -> Committees \cup {None}],
        e \in [Committees -> [EvenRounds -> Authors]]}

InitAtomicity ==
    /\ NodeQuiet
    /\ bsy = BsZero
    /\ \E b \in Blocks, lr \in [Nodes -> {0, 2}] :
         lsv = [LsZero EXCEPT !.block = b, !.round = lr]

\* is_linked: the certificates of each round, from the round below the
\* current certificate down to the round of the previous certificate, that
\* a certificate of the traversal names as a previous certificate
RECURSIVE Traversal(_, _, _, _)
Traversal(certs, traversal, round, last) ==
    IF round < last THEN [ok |-> TRUE, certs |-> traversal]
    ELSE LET certificates == {c \in certs : c.round = round}
         IN  IF certificates = {} THEN [ok |-> FALSE, certs |-> {}]
             ELSE Traversal(certs,
                            {p \in certificates : \E c \in traversal : p.id \in c.prev},
                            round - 1, last)

\* a variant that only looks at the previous certificates of the current one
is_linked_direct(block, previous_certificate, current_certificate) ==
    IF previous_certificate.id \in current_certificate.prev THEN "linked" ELSE "apart"

\* a variant that takes a round without certificates for an empty one
is_linked_lenient(block, previous_certificate, current_certificate) ==
    LET t == Traversal(block.certs, {current_certificate},
                       current_certificate.round - 1, previous_certificate.round)
    IN  IF previous_certificate \in t.certs THEN "linked" ELSE "apart"

is_linked(block, previous_certificate, current_certificate) ==
    LET t == Traversal(block.certs, {current_certificate},
                       current_certificate.round - 1, previous_certificate.round)
    IN  IF ~t.ok THEN "err"
        ELSE IF previous_certificate \in t.certs THEN "linked" ELSE "apart"

\* a variant in which the leader depends on the validator that computes it
ComputedLeader_local(v, block, round) ==
    (block.elect[block.committee[CommitteeLookbackRound(round)]][round] + v) % NumAuthors

\* the leader validator v computes for the round: get_leader of the
\* committee lookback of the round
ComputedLeader(v, block, round) ==
    block.elect[block.committee[CommitteeLookbackRound(round)]][round]

\* the loop of check_block_subdag_atomicity from round down to the latest
\* committed round + 2, in steps of 2; leaders are the leaders it computed
RECURSIVE AtomicityFrom(_, _, _, _)
AtomicityFrom(v, block, latest_round, round) ==
    IF round < latest_round + 2 THEN [res |-> "ok", leaders |-> {}]
    ELSE IF block.committee[CommitteeLookbackRound(round)] = None
         THEN [res |-> "err", leaders |-> {}]
    ELSE LET computed_leader == ComputedLeader(v, block, round)
             found == {c \in block.certs : c.round = round /\ c.author = computed_leader}
             rest == AtomicityFrom(v, block, latest_round, round - 2)
             here == {<<round, computed_leader>>}
         IN  IF found = {} THEN [rest EXCEPT !.leaders = @ \cup here]
             ELSE LET linked == is_linked(block, CHOOSE c \in found : TRUE, block.leader)
                  IN  CASE linked = "err" -> [res |-> "err", leaders |-> here]
                        [] linked = "linked" -> [res |-> "split", leaders |-> here]
                        [] OTHER -> [rest EXCEPT !.leaders = @ \cup here]

check_block_subdag_atomicity(v, block, latest_round) ==
    AtomicityFrom(v, block, latest_round, Max(0, block.anchor - 2))

\* check_next_block of validator v: the checks before the atomicity check
\* fail (early), or the atomicity check runs and the checks after it fail
\* (late) or all pass
check_next_block(v, others) ==
    /\ lsv.res[v] = None
    /\ LET a == check_block_subdag_atomicity(v, lsv.block, lsv.round[v])
       IN  lsv' = [lsv EXCEPT
                     !.res[v] = CASE others = "early" -> "err"
                                  [] a.res # "ok" -> a.res
                                  [] others = "late" -> "err"
                                  [] OTHER -> "ok",
                     !.leaders[v] = IF others = "early" THEN {} ELSE a.leaders]
    /\ UNCHANGED <<nodevars, bsy>>

NextAtomicity ==
    \E v \in Nodes, others \in {"early", "late", "pass"} : check_next_block(v, others)

SpecAtomicity == InitAtomicity /\ [][NextAtomicity]_vars

(***************************************************************************)
(* SpecLedger: the ledger service of one node. The node asks for committee *)
(* lookbacks and advances its ledger block by block; the handler of the    *)
(* termination signal sets the shared shutdown flag at any moment.         *)
(***************************************************************************)
\* the rounds get_committee_lookback_for_round is called with
LedgerRounds == 0..(AnchorRound + 2)

\* the ledger holds the committees of the rounds 0..k (none for k = -1)
InitLedger ==
    /\ NodeQuiet
    /\ bsy = BsZero
    /\ \E k \in -1..(AnchorRound + 2) : lsv = [LsZero EXCEPT !.have = 0..k]

\* get_committee_for_round: the committee of the round from the cache, else
\* from the ledger (which fills the cache), else the current committee when
\* it starts at the round (held among have), else an error
get_committee_for_round(round) ==
    IF round \in lsv.cache \/ round \in lsv.have
    THEN [res |-> "ok", got |-> round] ELSE [res |-> "err", got |-> 0]

get_committee_lookback_for_round(round) ==
    /\ lsv.adv.pc = "idle"
    /\ LET committee_lookback_round == CommitteeLookbackRound(round)
       IN  lsv' = [lsv EXCEPT
                     !.lb = [round |-> round, asked |-> committee_lookback_round,
                             res |-> get_committee_for_round(committee_lookback_round).res,
                             got |-> get_committee_for_round(committee_lookback_round).got],
                     !.cache = IF committee_lookback_round \in lsv.have
                               THEN @ \cup {committee_lookback_round} ELSE @]
    /\ UNCHANGED <<nodevars, bsy>>

\* the handler of the termination signal stores true in the shutdown flag
SetShutdown ==
    /\ ~lsv.shutdown
    /\ lsv' = [lsv EXCEPT !.shutdown = TRUE]
    /\ UNCHANGED <<nodevars, bsy>>

\* a variant that does not look at the shutdown flag
ShutdownLoaded_ignored(flag) == FALSE

\* advance_to_next_block loads the shutdown flag
ShutdownLoaded(flag) == flag

\* advance_to_next_block is called with the block of the next height: it
\* bails when it loads a set flag, else goes on to the ledger
advance_begin ==
    /\ lsv.adv.pc = "idle"
    /\ lsv.adv.calls < MaxAdvances
    /\ lsv' = [lsv EXCEPT
                 !.adv = IF ShutdownLoaded(lsv.shutdown)
                         THEN [pc |-> "idle", res |-> "shutdown", calls |-> @.calls + 1,
                               after |-> lsv.shutdown]
                         ELSE [pc |-> "ledger", res |-> "none", calls |-> @.calls + 1,
                               after |-> lsv.shutdown]]
    /\ UNCHANGED <<nodevars, bsy>>

\* Ledger::advance_to_next_block adds the block or fails
advance_ledger(ok) ==
    /\ lsv.adv.pc = "ledger"
    /\ lsv' = [lsv EXCEPT
                 !.adv.pc = "idle",
                 !.adv.res = IF ok THEN "ok" ELSE "err",
                 !.height = IF ok THEN @ + 1 ELSE @,
                 !.latest = IF ok THEN lsv.height + 1 ELSE @]
    /\ UNCHANGED <<nodevars, bsy>>

NextLedger ==
    \/ \E r \in LedgerRounds : get_committee_lookback_for_round(r)
    \/ SetShutdown
    \/ advance_begin
    \/ \E ok \in BOOLEAN : advance_ledger(ok)

SpecLedger == InitLedger /\ [][NextLedger]_vars

(***************************************************************************)
(* SpecSync: the block sync module of one node. Peers send block locators, *)
(* peers are removed, and the node runs try_block_sync. Chains and         *)
(* locators stay below NUM_RECENT_BLOCKS heights, where the locators of a  *)
(* peer name every height from 0 to its latest: a locator set is the       *)
(* sequence of its hashes, the hash of height h at index h + 1. The        *)
(* canonical chain has the hash "h" at every height; a peer has "h" or     *)
(* another hash "x".                                                       *)
(***************************************************************************)
Hashes == {"h", "x"}

\* the locator sets of a peer: heights 0..k for k <= MaxHeight
LocatorSets == UNION {[1..(k + 1) -> Hashes] : k \in 0..MaxHeight}

\* MAX_BLOCKS_BEHIND
MaxBlocksBehind == 1

\* latest_locator_height
LatestLocatorHeight(locators) == Len(locators) - 1

\* canon.latest_block_height
CanonHeight == Len(bsy.canon) - 1

InitSync ==
    /\ NodeQuiet
    /\ lsv = LsZero
    /\ \E k \in 0..MaxHeight :
         bsy = [BsZero EXCEPT !.canon = [i \in 1..(k + 1) |-> "h"]]

\* a variant of the loop that records the height of the fork itself
AncestorFrom_fork(iterated, looked_up, height, ancestor) ==
    LET differ == {i \in 1..Min(Len(iterated), Len(looked_up)) : iterated[i] # looked_up[i]}
        same == {i \in 1..Min(Len(iterated), Len(looked_up)) : iterated[i] = looked_up[i]}
    IN  IF differ # {} THEN (CHOOSE i \in differ : \A j \in differ : i <= j) - 1
        ELSE IF same # {} THEN (CHOOSE i \in same : \A j \in same : i >= j) - 1
        ELSE ancestor

\* a variant of the loop that goes on after a mismatch
AncestorFrom_nobreak(iterated, looked_up, height, ancestor) ==
    LET same == {i \in 1..Min(Len(iterated), Len(looked_up)) : iterated[i] = looked_up[i]}
    IN  IF same # {} THEN (CHOOSE i \in same : \A j \in same : i >= j) - 1 ELSE ancestor

\* the loops of update_peer_locators from a height upward over the iterated
\* locators: a height the other side lacks is skipped, a height with the same
\* hash becomes the ancestor, a height with another hash ends the loop
RECURSIVE AncestorFrom(_, _, _, _)
AncestorFrom(iterated, looked_up, height, ancestor) ==
    IF height > LatestLocatorHeight(iterated) THEN ancestor
    ELSE IF height > LatestLocatorHeight(looked_up)
         THEN AncestorFrom(iterated, looked_up, height + 1, ancestor)
    ELSE IF looked_up[height + 1] = iterated[height + 1]
         THEN AncestorFrom(iterated, looked_up, height + 1, height)
    ELSE ancestor

\* the common ancestor of the locators and this node
AncestorWithSelf(locators) == AncestorFrom(locators, bsy.canon, 0, 0)

\* a variant that looks the hashes of the other peer up in the canonical chain
AncestorWithPeer_canon(other_locators, locators) ==
    AncestorFrom(other_locators, bsy.canon, 0, 0)

\* the common ancestor of the locators and those of another peer
AncestorWithPeer(other_locators, locators) ==
    AncestorFrom(other_locators, locators, 0, 0)

\* a variant that inserts the locators before it validates them
update_peer_locators_unchecked(peer_ip, locators, valid) ==
    /\ IF bsy.locators[peer_ip] = locators
       THEN bsy' = [bsy EXCEPT !.last = [op |-> "update", peer |-> peer_ip, res |-> "same"]]
       ELSE bsy' = [bsy EXCEPT
                !.locators[peer_ip] = locators,
                !.last = [op |-> "update", peer |-> peer_ip,
                          res |-> IF valid THEN "stored" ELSE "err"]]
    /\ UNCHANGED <<nodevars, lsv>>

\* update_peer_locators(peer_ip, locators); valid is the result of
\* ensure_is_valid
update_peer_locators(peer_ip, locators, valid) ==
    /\ IF bsy.locators[peer_ip] = locators
       THEN bsy' = [bsy EXCEPT !.last = [op |-> "update", peer |-> peer_ip, res |-> "same"]]
       ELSE IF ~valid
       THEN bsy' = [bsy EXCEPT !.last = [op |-> "update", peer |-> peer_ip, res |-> "err"]]
       ELSE bsy' = [bsy EXCEPT
                !.locators[peer_ip] = locators,
                !.ancestors = [k \in PeerPairs |->
                    IF k = <<SelfIp, peer_ip>>
                    THEN AncestorWithSelf(locators)
                    ELSE IF k[1] = peer_ip /\ k[2] # peer_ip /\ bsy.locators[k[2]] # <<>>
                    THEN AncestorWithPeer(bsy.locators[k[2]], locators)
                    ELSE @[k]],
                !.last = [op |-> "update", peer |-> peer_ip, res |-> "stored"]]
    /\ UNCHANGED <<nodevars, lsv>>

\* remove_peer drops the locators of the peer and keeps its common ancestors
remove_peer(peer_ip) ==
    /\ bsy.locators[peer_ip] # <<>>
    /\ bsy' = [bsy EXCEPT !.locators[peer_ip] = <<>>,
                          !.last = [op |-> "remove", peer |-> peer_ip, res |-> "ok"]]
    /\ UNCHANGED <<nodevars, lsv>>

\* a variant that subtracts without saturating
update_is_block_synced_unsaturated(greatest_peer_height, max_blocks_behind) ==
    LET num_blocks_behind == greatest_peer_height - CanonHeight
    IN  [behind |-> num_blocks_behind, synced |-> num_blocks_behind <= max_blocks_behind]

update_is_block_synced(greatest_peer_height, max_blocks_behind) ==
    LET num_blocks_behind == IF greatest_peer_height > CanonHeight
                             THEN greatest_peer_height - CanonHeight ELSE 0
    IN  [behind |-> num_blocks_behind, synced |-> num_blocks_behind <= max_blocks_behind]

\* try_block_sync
try_block_sync ==
    /\ bsy' = [bsy EXCEPT
                 !.behind = update_is_block_synced(0, MaxBlocksBehind).behind,
                 !.synced = update_is_block_synced(0, MaxBlocksBehind).synced,
                 !.last = [op |-> "sync", peer |-> SelfIp, res |-> "ok"]]
    /\ UNCHANGED <<nodevars, lsv>>

NextSync ==
    \/ \E p \in Peers, l \in LocatorSets, valid \in BOOLEAN : update_peer_locators(p, l, valid)
    \/ \E p \in Peers : remove_peer(p)
    \/ try_block_sync

SpecSync == InitSync /\ [][NextSync]_vars

(***************************************************************************)
(* SpecSyncCalls: update_peer_locators called by several threads at once.  *)
(* A call takes the lock of the locators to compare, again to insert, the  *)
(* lock of the common ancestors to insert the ancestor with this node, and *)
(* both locks for the loop over the other peers; between these steps the   *)
(* steps of other calls and remove_peer take place.                        *)
(***************************************************************************)
\* the locators the calls are made with: the hashes of the heights
\* 0..MaxHeight of a peer that has the genesis block of this node and whose
\* chain, once it left the chain of this node, stays apart
CallLocators ==
    {l \in LocatorSets :
        /\ Len(l) = MaxHeight + 1
        /\ l[1] = "h"
        /\ \A i \in 1..MaxHeight : l[i] = "x" => l[i + 1] = "x"}

\* the canonical chain has the heights 0..MaxHeight
InitSyncCalls == InitSync /\ CanonHeight = MaxHeight

\* the comparison with the stored locators and ensure_is_valid
up_check(c, peer_ip, locators, valid) ==
    /\ bsy.call[c].pc = "idle"
    /\ IF bsy.locators[peer_ip] = locators \/ ~valid
       THEN bsy' = bsy
       ELSE bsy' = [bsy EXCEPT !.call[c] = [pc |-> "insert", peer |-> peer_ip,
                                            locators |-> locators]]
    /\ UNCHANGED <<nodevars, lsv>>

\* self.locators.write().insert(peer_ip, locators)
up_insert(c) ==
    /\ bsy.call[c].pc = "insert"
    /\ bsy' = [bsy EXCEPT !.locators[bsy.call[c].peer] = bsy.call[c].locators,
                          !.call[c].pc = "self"]
    /\ UNCHANGED <<nodevars, lsv>>

\* the common ancestor with this node is computed from the call's locators
\* and inserted
up_self(c) ==
    /\ bsy.call[c].pc = "self"
    /\ bsy' = [bsy EXCEPT
                 !.ancestors[<<SelfIp, bsy.call[c].peer>>] =
                     AncestorWithSelf(bsy.call[c].locators),
                 !.call[c].pc = "others"]
    /\ UNCHANGED <<nodevars, lsv>>

\* the loop over the locators of the other peers, under both locks
up_others(c) ==
    /\ bsy.call[c].pc = "others"
    /\ bsy' = [bsy EXCEPT
                 !.ancestors = [k \in PeerPairs |->
                     IF k[1] = bsy.call[c].peer /\ k[1] # SelfIp /\ k[2] # k[1]
                        /\ bsy.locators[k[2]] # <<>>
                     THEN AncestorWithPeer(bsy.locators[k[2]], bsy.call[c].locators)
                     ELSE @[k]],
                 !.call[c] = IdleCall]
    /\ UNCHANGED <<nodevars, lsv>>

NextSyncCalls ==
    \/ \E c \in Callers, p \in Peers, l \in CallLocators, valid \in BOOLEAN :
          up_check(c, p, l, valid)
    \/ \E c \in Callers : up_insert(c)
    \/ \E c \in Callers : up_self(c)
    \/ \E c \in Callers : up_others(c)
    \/ \E p \in Peers : remove_peer(p)

SpecSyncCalls == InitSyncCalls /\ [][NextSyncCalls]_vars

(***************************************************************************)
(* Claims about the primary and the storage (Spec).                        *)
(***************************************************************************)
\* C1: whatever the interleaving of the propose_batch calls of the batch
\* proposer, of the round-increment handler and of certificate sync, the
\* primary forms at most one certificate of its own for a round.
C1_OneOwnCertificatePerRound ==
    \A r \in Rounds : formed[<<Self, r>>] <= 1

\* C1 witness: the primary certified the current round in this run, one task
\* is inside propose_batch_lite for that round again and holds the lock,
\* another waits for the lock.
C1_Witness ==
    \E t, u \in Tasks :
        /\ t # u
        /\ pc[t] = "pb_check" /\ lock_holder = t
        /\ pc[u] = "pb_lock"
        /\ formed[<<Self, storage.round>>] = 1
        /\ propose_lock = storage.round

C4_GcRound ==
    /\ storage.gc = Max(0, storage.round - MaxGcRounds)
    /\ \A c \in storage.certs : c.round > storage.gc
    /\ lastins.on => lastins.cert.round > storage.gc

\* C4 witness: the GC round has advanced past a round the primary certified
\* in this run, and a certificate has just been inserted.
C4_Witness ==
    /\ storage.gc >= 1
    /\ formed[<<Self, storage.gc>>] = 1
    /\ lastins.on

\* C5: every previous certificate id of a resident certificate of round r,
\* r > 1 and r > gc_round + 1, is the id of a certificate of round r - 1
\* that is resident or in the ledger.
C5_PreviousCertificatesHeld ==
    \A c \in storage.certs :
        (c.round > 1 /\ c.round > storage.gc + 1) =>
            \A id \in c.prev :
                /\ id[2] = c.round - 1
                /\ \/ \E d \in storage.certs : d.id = id /\ d.round = c.round - 1
                   \/ id \in ledger.certs

\* C5 witness: a certificate of the proposal cache is resident together with
\* its previous certificates, which the ledger does not hold: sync fetched
\* and stored them first.
C5_Witness ==
    \E c \in storage.certs :
        /\ c.id[3] = 0 /\ c.round = MaxCacheRound
        /\ c.round > storage.gc + 1
        /\ ledger.certs = {}
        /\ c.prev # {}
        /\ \A id \in c.prev : ContainsCertificate(storage, id)

\* C6: right after insert_certificate succeeded for a certificate, storage
\* contains every transmission id of its header.
C6_InsertedTransmissionsContained ==
    lastins.on => \A id \in lastins.cert.tx : StorageContainsTransmission(id)

\* C6 witness: a certificate with a transmission has just been inserted.
C6_Witness ==
    /\ lastins.on
    /\ lastins.cert.tx # {}
    /\ lastins.cert.author = Self

\* the ids of the certificates storage holds in the round before r
PreviousCertificateIds(r) == {c.id : c \in {d \in storage.certs : d.round = r - 1}}

\* C17: a call goes on to build a batch for a round above 1 only if the
\* authors of the certificates of the previous round in storage reach the
\* quorum threshold; the previous certificate ids it takes are the ids of
\* exactly the certificates storage holds in that round at that moment, and
\* they are the previous certificate ids of the certificate made from the
\* batch. Round 1 needs no quorum.
C17_ProposalOnQuorumOfPreviousRound ==
    [][\A t \in Tasks :
          /\ (pc[t] = "pb_check" /\ pc'[t] = "pb_drain") =>
                /\ storage.round > 1 =>
                      IsQuorumThresholdReached(
                          {c.author : c \in {d \in storage.certs : d.round = storage.round - 1}})
                /\ loc'[t].round = storage.round
                /\ loc'[t].prev = PreviousCertificateIds(storage.round)
          /\ (pc[t] = "pb_store" /\ pc'[t] \in {"pb_cert_bft", "pb_inc"}) =>
                /\ lastins'.on
                /\ lastins'.cert.author = Self
                /\ lastins'.cert.round = loc[t].round
                /\ lastins'.cert.prev = loc[t].prev]_vars

\* C17 witness: the primary has just stored its certificate of a round above
\* 1, made on a quorum of certificates of the previous round.
C17_Witness ==
    /\ lastins.on
    /\ lastins.cert.author = Self
    /\ lastins.cert.id[3] > 0
    /\ lastins.cert.round > 1
    /\ Cardinality(lastins.cert.prev) >= 3
    /\ lastins.cert.prev = PreviousCertificateIds(lastins.cert.round)

\* C18 as claimed: the signatures of a proposal of the primary were all
\* received from peers of the committee; none was produced by the primary
\* on behalf of another validator.
C18_SignaturesOnlyFromPeers ==
    \A t \in Tasks : \A sig \in loc[t].sigs :
        sig.signer \in Validators \ {Self} /\ sig.by = "peer"

\* s is an initial part of q
IsPrefix(s, q) == Len(s) <= Len(q) /\ \A i \in 1..Len(s) : s[i] = q[i]

\* C19 as claimed: the steps taken after the certificate was formed are, in
\* this order, the insertion, the broadcast of BatchCertified, the sending
\* to the BFT and the attempt to increment the round.
C19_InsertBroadcastBftIncrement ==
    \A t \in Tasks :
        IsPrefix(loc[t].log,
                 IF bft THEN <<"insert", "broadcast", "bft", "increment">>
                 ELSE <<"insert", "broadcast", "increment">>)

\* C19: the steps taken after the certificate was formed are, in this
\* order, the insertion, the sending to the BFT when there is one, the
\* broadcast of BatchCertified and the attempt to increment the round; no
\* step is taken without the insertion, and with a BFT the broadcast only
\* follows a sending that succeeded.
C19_InsertBftBroadcastIncrement ==
    \A t \in Tasks :
        IsPrefix(loc[t].log,
                 IF bft THEN <<"insert", "bft", "broadcast", "increment">>
                 ELSE <<"insert", "broadcast", "increment">>)

\* C19 witness: with a BFT, a call has inserted its certificate, sent it to
\* the BFT, broadcast it and is incrementing the round.
C19_Witness ==
    \E t \in Tasks :
        /\ bft
        /\ pc[t] = "pb_inc_bft"
        /\ loc[t].log = <<"insert", "bft", "broadcast", "increment">>
        /\ ContainsCertificateInRoundFrom(storage, loc[t].round, Self)

\* task t leaves propose_batch_lite with an error in this step, after the
\* workers were drained and before the certificate is stored
FailsBeforeCertification(t) ==
    /\ pc[t] \in {"pb_sign", "pb_store"}
    /\ pc'[t] \notin {"pb_sign", "pb_store", "pb_cert_bft", "pb_inc"}

\* C12 as claimed: when propose_batch fails after the workers were drained
\* and before the batch is certified, every transmission selected for the
\* batch is back in the ready queue of its worker.
C12_FailedProposalReinserts ==
    [][\A t \in Tasks :
          FailsBeforeCertification(t) =>
              \A id \in Range(loc[t].txs) :
                  ReadyContains(ready'[assign_to_worker(id, numWorkers)], id)]_vars

(***************************************************************************)
(* Claims about the worker (SpecWorker).                                   *)
(***************************************************************************)
\* number of entries the ready queue q holds for id
Entries(q, id) == Cardinality({i \in 1..Len(q) : q[i] = id})

\* two pushes of the same id, u spawned before v, both returned
SamePushes(u, v) ==
    /\ u < v
    /\ utask[u].pc = "done" /\ utask[v].pc = "done"
    /\ utask[u].id = utask[v].id

\* C8: whatever the interleaving of the process_unconfirmed_* calls (and of
\* the proposer), a ready queue never holds more than one entry for an id.
C8_ReadyHoldsAtMostOneEntry ==
    \A w \in Workers, id \in Tids : Entries(ready[w], id) <= 1

\* C8 witness: two calls for the same id both passed the duplicate check and the
\* ledger check (they were suspended in the ledger together), and the id is
\* in the ready queue once: the second insertion changed nothing.
C8_Witness ==
    \E u, v \in UTasks :
        /\ SamePushes(u, v)
        /\ dpc = "fresh"
        /\ utask[u].res = "ok" /\ utask[v].res = "ok"
        /\ ~utask[v].changed
        /\ Entries(ready[utask[u].w], utask[u].id) = 1

\* C9 as claimed: when a valid solution is pushed twice and the proposer has
\* not touched the queue, the second push returns the duplicate error and
\* the ready queue holds exactly one entry for it.
C9_SecondPushIsDuplicate ==
    \A u, v \in UTasks :
        (/\ SamePushes(u, v)
         /\ txclass[utask[u].id] = "sol"
         /\ dpc = "fresh"
         /\ ~utask[u].known
         /\ utask[u].res = "ok" /\ utask[v].res # "invalid")
        => (/\ utask[v].res = "duplicate"
            /\ Entries(ready[utask[u].w], utask[u].id) = 1)

\* what the claim calls "in the ready queue, the proposed batch, storage or
\* the ledger"
HeldSomewhere(w, id) ==
    \/ id \in Range(ready[w])
    \/ (proposed_batch.some /\ id \in proposed_batch.tx)
    \/ id \in storage.tx
    \/ id \in ledger.tx

\* a call made with an id that contains_transmission reported returned the
\* duplicate error, never called the ledger check, never changed the queue
KnownIsRefused ==
    \A u \in UTasks :
        (utask[u].pc \in {"check", "done"} /\ utask[u].known)
        => (/\ utask[u].pc = "done"
            /\ utask[u].res = "duplicate"
            /\ ~utask[u].checked
            /\ ~utask[u].changed)

SoleCall(u) ==
    \A v \in UTasks \ {u} : utask[v].pc = "idle" \/ utask[v].id # utask[u].id

\* C11: a call of process_unconfirmed_solution / _transaction for an id that
\* nothing held, the only call for that id and with the proposer not having
\* touched the queue, has returned: it returned Ok or the error of the ledger
\* check, the ready queue contains the id exactly when the check succeeded,
\* and the pending set does not contain the id.
C11_ReadyIffCheckSucceeded ==
    \A u \in UTasks :
        (utask[u].pc = "done" /\ ~utask[u].known /\ SoleCall(u) /\ dpc = "fresh")
        => (/\ utask[u].res \in {"ok", "invalid"}
            /\ utask[u].checked
            /\ ReadyContains(ready[utask[u].w], utask[u].id) <=> utask[u].res = "ok"
            /\ utask[u].id \notin pending[utask[u].w])

\* C11 witness: one call returned Ok and its id is queued, another call, for
\* another id, returned the error of the ledger check and its id is not.
C11_Witness ==
    \E u, v \in UTasks :
        /\ utask[u].pc = "done" /\ utask[v].pc = "done"
        /\ utask[u].id # utask[v].id
        /\ ~utask[u].known /\ ~utask[v].known
        /\ dpc = "fresh"
        /\ utask[u].res = "ok" /\ ReadyContains(ready[utask[u].w], utask[u].id)
        /\ utask[v].res = "invalid" /\ ~ReadyContains(ready[utask[v].w], utask[v].id)

(***************************************************************************)
(* Claims about the draining loop (SpecDrain).                             *)
(***************************************************************************)
\* C7: every batch taken from the workers holds at most
\* MAX_TRANSMISSIONS_PER_BATCH transmissions, and each worker contributed
\* at most floor(MAX_TRANSMISSIONS_PER_BATCH / K) of them.
C7_BatchSizeBound ==
    dpc = "drained" =>
        /\ Len(batch) <= MaxTransmissionsPerBatch
        /\ \A w \in Workers :
              Cardinality({i \in 1..Len(batch) : assign_to_worker(batch[i], numWorkers) = w})
                  <= MaxTransmissionsPerBatch \div numWorkers

\* C7 witness: a full batch was taken although a worker had to be drained
\* again after a drained transmission was skipped, and transmissions remain.
C7_Witness ==
    /\ dpc = "drained"
    /\ Len(batch) = MaxTransmissionsPerBatch
    /\ \E w \in Workers : ready[w] # <<>>
    /\ \E id \in Tids : id \notin Range(batch) /\ \A w \in Workers : id \notin Range(ready[w])
                        /\ (txclass[id] # "sol" \/ id \in ledger.tx \/ id \in storage.tx)

\* a transmission the call drained from its worker and left out of the batch
DrainedAndSkipped(id) ==
    /\ id \notin Range(batch)
    /\ \A w \in Workers : id \notin Range(ready[w])

\* C13: a batch taken from the workers holds no ratification and no pair
\* whose id and transmission are of different kinds.
C13_NoRatificationNoMismatch ==
    dpc = "drained" =>
        \A i \in 1..Len(batch) : txclass[batch[i]] \notin {"rat", "mismatch"}

\* C13 witness: a batch was taken while a ratification and a mismatched pair
\* were drained from the workers and left out.
C13_Witness ==
    /\ dpc = "drained"
    /\ batch # <<>>
    /\ \E id \in Tids : txclass[id] = "rat" /\ DrainedAndSkipped(id)
    /\ \E id \in Tids : txclass[id] = "mismatch" /\ DrainedAndSkipped(id)

\* C14: a batch taken from the workers holds only transmissions for which
\* the ledger answered, and answered that it does not contain them.
C14_LedgerHeldOrFailingSkipped ==
    dpc = "drained" =>
        \A i \in 1..Len(batch) : ledger.up /\ batch[i] \notin ledger.tx

\* C14 witness: a batch was taken while a well-formed solution the ledger
\* holds was drained and left out.
C14_Witness ==
    /\ dpc = "drained"
    /\ batch # <<>>
    /\ \E id \in ledger.tx : txclass[id] = "sol" /\ DrainedAndSkipped(id)

\* C15: only the first transmission of a batch can be one that storage
\* already held when it was selected.
C15_AtMostFirstFromStorage ==
    dpc = "drained" =>
        \A i \in 2..Len(batch) : batch[i] \notin storage.tx

\* C15 witness: the batch starts with a transmission storage holds, a second
\* transmission was selected after it, and another transmission storage
\* holds was drained and left out.
C15_Witness ==
    /\ dpc = "drained"
    /\ Len(batch) >= 2
    /\ batch[1] \in storage.tx
    /\ \E id \in storage.tx : txclass[id] = "sol" /\ DrainedAndSkipped(id)

(***************************************************************************)
(* Claims about the proposal timestamp (SpecTime).                         *)
(***************************************************************************)
\* the timestamp T a call at the current round must keep its distance from
PreviousOwnOrLatest ==
    IF \E c \in storage.certs : c.author = Self /\ c.round = storage.round - 1
    THEN tm.own[storage.round - 1]
    ELSE tm.latest

\* C16: a call of propose_batch_lite goes on to drain the workers only if
\* now - T >= MIN_BATCH_DELAY_IN_SECS, T being the timestamp of the primary's
\* certificate of the previous round when storage holds one and the latest
\* proposed batch timestamp otherwise; when now - T overflows or is smaller
\* the call returns Ok without draining a worker.
C16_MinimumProposalDelay ==
    [][\A t \in Tasks :
          (pc[t] = "pb_check" /\ pc'[t] # "pb_check") =>
              LET elapsed == tm'.now - PreviousOwnOrLatest IN
              /\ pc'[t] = "pb_drain" => elapsed >= MinBatchDelayInSecs
              /\ (elapsed \notin Times \/ elapsed < MinBatchDelayInSecs) =>
                    /\ pc'[t] = RetPc(t, TRUE)
                    /\ ready' = ready]_vars

\* C16 witness: a call at a round whose previous round holds a certificate
\* of the primary has just skipped because now - T overflows, with a
\* transmission waiting in a worker and the latest proposal timestamp far
\* enough in the past.
C16_Witness ==
    /\ pc["tick"] = "idle"
    /\ tm.res = "err"
    /\ storage.round > 1
    /\ ContainsCertificateInRoundFrom(storage, storage.round - 1, Self)
    /\ tm.now - tm.own[storage.round - 1] \notin Times
    /\ tm.now - tm.latest \in Times
    /\ tm.now - tm.latest >= MinBatchDelayInSecs
    /\ \E w \in Workers : ready[w] # <<>>

(***************************************************************************)
(* Claims about the progress of the proposer (SpecLive).                   *)
(***************************************************************************)
\* C20 as claimed: whenever the primary is at a round r, the certificates of
\* round r eventually reach the quorum threshold, whatever step of a
\* proposal has failed meanwhile.
C20_QuorumLiveness ==
    \A r \in 1..(MaxRound - 1) :
        (storage.round = r) ~> QuorumInRound(storage, r)

\* C21 as claimed: with a validator of the committee of four that is never
\* heard, the round of the primary never goes beyond round 2.
C21_NoRoundBeyondTwo == storage.round <= 2

RECURSIVE CausalPast(_, _)
CausalPast(certs, S) ==
    LET more == S \cup {p \in certs : \E c \in S : p.id \in c.prev}
    IN  IF more = S THEN S ELSE CausalPast(certs, more)

\* the subdag of the block holds a certificate of the elected leader of an
\* even round between the latest round of v + 2 and the anchor round - 2 that
\* a causal path from the leader certificate reaches
Splittable(v) ==
    \E r \in EvenRounds :
        /\ lsv.round[v] + 2 <= r
        /\ r <= lsv.block.anchor - 2
        /\ lsv.block.committee[CommitteeLookbackRound(r)] # None
        /\ \E p \in CausalPast(lsv.block.certs, {lsv.block.leader}) :
             /\ p.round = r
             /\ p.author = lsv.block.elect[lsv.block.committee[CommitteeLookbackRound(r)]][r]

\* C23: subdag atomicity: check_next_block rejects every block whose subdag
\* holds a certificate of the elected leader of an earlier even round, above
\* the latest round, that is causally linked to the leader certificate.
C23_SplittableSubdagRejected ==
    \A v \in Nodes : lsv.res[v] # None /\ Splittable(v) => lsv.res[v] # "ok"

\* a validator rejected a splittable block for being splittable
C23_Witness ==
    \E v \in Nodes : Splittable(v) /\ lsv.res[v] = "split"

(***************************************************************************)
(* Claims checked under SpecLedger                                         *)
(***************************************************************************)
\* C28 as claimed: get_committee_lookback_for_round(r) asks for the committee
\* of a round e - COMMITTEE_LOOKBACK_RANGE (saturating at 0) for an even
\* round e.
C28_LookbackOfPreviousEvenRound ==
    lsv.lb.res # "none" =>
        \E e \in 0..(lsv.lb.round + CommitteeLookbackRange + 1) :
            /\ e % 2 = 0
            /\ lsv.lb.asked = Max(0, e - CommitteeLookbackRange)

\* C28 as the code has it: get_committee_lookback_for_round(r) returns the
\* committee of round p - COMMITTEE_LOOKBACK_RANGE (saturating at 0), or the
\* error of that lookup, where p is the round before the even round at or
\* below r (saturating at 0): r - 1 for an even r, r - 2 for an odd r.
C28_LookbackOfRoundBeforeEvenRound ==
    lsv.lb.res # "none" =>
        LET even == 2 * (lsv.lb.round \div 2)
            p == IF even = 0 THEN 0 ELSE even - 1
            lookback == IF p > CommitteeLookbackRange THEN p - CommitteeLookbackRange ELSE 0
        IN  /\ lsv.lb.asked = lookback
            /\ lsv.lb.res = "ok" <=> lookback \in lsv.have
            /\ lsv.lb.res = "ok" => lsv.lb.got = lookback

\* a lookback of a round whose round before is odd and above the range
\* returned a committee
C28_Witness ==
    /\ lsv.lb.round >= CommitteeLookbackRange + 2
    /\ lsv.lb.asked > 0
    /\ lsv.lb.res = "ok"

\* C29: every advance_to_next_block call that starts after the shutdown flag
\* has been set fails with the shutdown error and leaves the latest height
\* and the latest block of the ledger unchanged.
C29_NoAdvanceAfterShutdown ==
    [][lsv.shutdown /\ lsv'.adv.calls = lsv.adv.calls + 1 =>
           /\ lsv'.adv.res = "shutdown"
           /\ lsv'.adv.pc = "idle"
           /\ lsv'.height = lsv.height
           /\ lsv'.latest = lsv.latest]_vars

\* after a block was added, a call that started with the flag set has failed
\* with the shutdown error
C29_Witness ==
    /\ lsv.shutdown
    /\ lsv.height > 0
    /\ lsv.adv.after
    /\ lsv.adv.res = "shutdown"

(***************************************************************************)
(* Claims checked under SpecSync                                           *)
(***************************************************************************)
\* the heights at which the locators a and b both have a hash and the hashes
\* differ
Disagreements(a, b) ==
    {h \in 0..Min(LatestLocatorHeight(a), LatestLocatorHeight(b)) : a[h + 1] # b[h + 1]}

Lowest(S) == CHOOSE h \in S : \A k \in S : h <= k

\* update_peer_locators returned Ok for the peer of the last call
UpdateSucceeded == bsy.last.op = "update" /\ bsy.last.res # "err"

\* C24: when the locators of a peer agree with the canonical chain on the
\* heights 0..L and differ at height L + 1, update_peer_locators records the
\* common ancestor L for the peer and this node.
C24_CommonAncestorIsSharedPrefix ==
    UpdateSucceeded =>
        LET locators == bsy.locators[bsy.last.peer]
        IN  \A L \in 0..MaxHeight :
                /\ L + 1 <= Min(LatestLocatorHeight(locators), CanonHeight)
                /\ \A h \in 0..L : locators[h + 1] = bsy.canon[h + 1]
                /\ locators[L + 2] # bsy.canon[L + 2]
                => bsy.ancestors[<<SelfIp, bsy.last.peer>>] = L

\* the locators {(0,h0),(1,h1),(2,hX)} against the canonical chain
\* {(0,h0),(1,h1),(2,h2)} were stored with the common ancestor 1
C24_Witness ==
    /\ bsy.last.op = "update" /\ bsy.last.res = "stored"
    /\ bsy.canon = <<"h", "h", "h">>
    /\ bsy.locators[bsy.last.peer] = <<"h", "h", "x">>
    /\ bsy.ancestors[<<SelfIp, bsy.last.peer>>] = 1

\* C25 as claimed: the common ancestor recorded with this node is strictly
\* below the lowest height at which the hash of the peer differs from the
\* canonical hash.
C25_AncestorStrictlyBelowFork ==
    UpdateSucceeded =>
        LET d == Disagreements(bsy.locators[bsy.last.peer], bsy.canon)
        IN  d # {} => bsy.ancestors[<<SelfIp, bsy.last.peer>>] < Lowest(d)

\* C25 as the code has it: the common ancestor recorded with this node is
\* strictly below the lowest height at which the hash of the peer differs
\* from the canonical hash when that height is above 0, and is 0 when that
\* height is 0; matching hashes above the first mismatch never raise it.
C25_AncestorBelowForkOrZero ==
    UpdateSucceeded =>
        LET d == Disagreements(bsy.locators[bsy.last.peer], bsy.canon)
            ancestor == bsy.ancestors[<<SelfIp, bsy.last.peer>>]
        IN  d # {} => IF Lowest(d) = 0 THEN ancestor = 0 ELSE ancestor < Lowest(d)

\* locators that fork from the canonical chain and rejoin it above the fork
\* were stored with an ancestor below the fork
C25_Witness ==
    /\ bsy.last.op = "update" /\ bsy.last.res = "stored"
    /\ LET locators == bsy.locators[bsy.last.peer]
           d == Disagreements(locators, bsy.canon)
       IN  /\ d # {}
           /\ Lowest(d) > 0
           /\ \E h \in 0..Min(LatestLocatorHeight(locators), CanonHeight) :
                h > Lowest(d) /\ locators[h + 1] = bsy.canon[h + 1]
           /\ bsy.ancestors[<<SelfIp, bsy.last.peer>>] < Lowest(d)

\* the highest height below the first disagreement of a and b at which both
\* have the same hash, 0 if there is none
AgreedHeight(a, b) ==
    LET d == Disagreements(a, b)
        agreed == {h \in 0..Min(LatestLocatorHeight(a), LatestLocatorHeight(b)) :
                      a[h + 1] = b[h + 1] /\ (d # {} => h < Lowest(d))}
    IN  IF agreed = {} THEN 0 ELSE CHOOSE h \in agreed : \A k \in agreed : k <= h

GreatestPeerHeight ==
    LET heights == {LatestLocatorHeight(bsy.locators[p]) :
                       p \in {q \in Peers : bsy.locators[q] # <<>>}}
    IN  IF heights = {} THEN 0 ELSE CHOOSE h \in heights : \A k \in heights : k <= h

C31_NoAttemptWaits ==
    \A t \in Tasks : pc[t] = "pb_lock" => lock_holder = None

\* C31 amended: only the batch proposer skips on contention. Its scheduled
\* attempt starts propose_batch only at a moment at which try_lock on the
\* propose-lock succeeds; when another attempt holds the lock the proposer
\* stays where it is, drains nothing and creates no proposal.
C31_ProposerSkipsOnContention ==
    [][(pc["tick"] = "idle" /\ pc'["tick"] = "pb_lock") => lock_holder = None]_vars

\* C31 witness: the batch proposer is due while the round-increment handler
\* is inside propose_batch_lite with the lock.
C31_Witness ==
    /\ pc["tick"] = "idle"
    /\ pc["load"] = "done"
    /\ lock_holder = "inc"
    /\ pc["inc"] \in {"pb_check", "pb_drain"}

\* C32: the primary signs at most one batch per (author, round): for every
\* other validator and round at most one batch is ever signed and certified,
\* an entry of signed_proposals names a round with exactly one such batch,
\* and an entry is written only by the step that signs the first batch of its
\* (author, round), so a step for an (author, round) already signed leaves
\* signed_proposals as it is.
C32_OneSignedBatchPerAuthorAndRound ==
    /\ [](\A v \in Validators \ {Self} :
            /\ \A r \in Rounds : formed[<<v, r>>] <= 1
            /\ signed_proposals[v] # 0 => formed[<<v, signed_proposals[v]>>] = 1)
    /\ [][\A v \in Validators \ {Self} :
            signed_proposals'[v] # signed_proposals[v] =>
                /\ formed[<<v, signed_proposals'[v]>>] = 0
                /\ formed'[<<v, signed_proposals'[v]>>] = 1]_vars

\* C32 witness: signed_proposals holds the round of a batch signed for a
\* validator, and fake_proposal is called for that validator again, for a
\* later round.
C32_Witness ==
    \E t \in Tasks, v \in Validators \ {Self} :
        /\ signed_proposals[v] >= 1
        /\ formed[<<v, signed_proposals[v]>>] = 1
        /\ pc[t] = "fk"
        /\ loc[t].vid = v
        /\ loc[t].round > signed_proposals[v]

(***************************************************************************)
(* Claims about the calls of BlockSync (SpecSync).                         *)
(***************************************************************************)
\* C33: a call of update_peer_locators that returns an error (the locators
\* are not well-formed) or that finds the locators equal to those stored for
\* the peer changes neither the peer-locator map nor the common-ancestor
\* map.
C33_RejectedOrRepeatedLocatorsChangeNothing ==
    [][(bsy'.last # bsy.last /\ bsy'.last.op = "update"
           /\ bsy'.last.res \in {"err", "same"}) =>
          /\ bsy'.locators = bsy.locators
          /\ bsy'.ancestors = bsy.ancestors
          /\ (bsy'.last.res = "same" => bsy.locators[bsy'.last.peer] # <<>>)]_vars

\* C33 witness: locators that are not well-formed were rejected for a peer
\* whose earlier locators and common ancestors are stored.
C33_Witness ==
    \E p, q \in Peers :
        /\ p # q
        /\ bsy.last = [op |-> "update", peer |-> p, res |-> "err"]
        /\ bsy.locators[p] # <<>>
        /\ bsy.locators[q] # <<>>
        /\ bsy.ancestors[<<SelfIp, p>>] >= 1
        /\ bsy.ancestors[<<p, q>>] >= 0

(***************************************************************************)
(* Claims about is_linked (SpecAtomicity).                                 *)
(***************************************************************************)
\* a chain of certificates of certs, one per round from the round of current
\* down to the round of previous, that starts at current, ends at previous
\* and in which each certificate names the next as a previous certificate;
\* f[r] is the author of the chain's certificate of round r
ChainExists(certs, previous, current) ==
    /\ previous.round <= current.round
    /\ \E f \in [previous.round..current.round -> Authors] :
          /\ current.id = <<f[current.round], current.round>>
          /\ previous.id = <<f[previous.round], previous.round>>
          /\ \A r \in previous.round..current.round :
                \E c \in certs :
                    /\ c.id = <<f[r], r>>
                    /\ r > previous.round => <<f[r - 1], r - 1>> \in c.prev

\* a round from the round of previous up to the round below current has no
\* certificate in certs
RoundAbsent(certs, previous, current) ==
    \E r \in previous.round..(current.round - 1) : \A c \in certs : c.round # r

\* C34: for the certificates of a block's subdag, is_linked(subdag, previous,
\* current) is true exactly when a chain of certificates of the subdag, one
\* per round, leads from current down to previous through previous
\* certificate ids, and it is an error exactly when a round from the round
\* of previous up to the round below current is absent from the subdag.
C34_LinkedIffChain ==
    \A previous, current \in lsv.block.certs :
        /\ is_linked(lsv.block, previous, current) = "linked"
               <=> ChainExists(lsv.block.certs, previous, current)
        /\ is_linked(lsv.block, previous, current) = "err"
               <=> RoundAbsent(lsv.block.certs, previous, current)

\* C34 witness: a validator's check found the certificate of an elected
\* leader two rounds below the leader certificate linked to it, in a block
\* that holds another certificate of that round that is not linked.
C34_Witness ==
    \E v \in Nodes, p, q \in lsv.block.certs :
        /\ lsv.res[v] = "split"
        /\ p.round = lsv.block.anchor - 2
        /\ q.round = p.round
        /\ is_linked(lsv.block, p, lsv.block.leader) = "linked"
        /\ is_linked(lsv.block, q, lsv.block.leader) = "apart"

\* C35: whenever no call of update_peer_locators is under way, the common
\* ancestor recorded for this node and a peer is the ancestor computed from
\* the locators stored for that peer.
C35_AncestorsMatchStoredLocators ==
    (\A c \in Callers : bsy.call[c].pc = "idle") =>
        \A p \in Peers :
            bsy.locators[p] # <<>> =>
                bsy.ancestors[<<SelfIp, p>>] = AncestorWithSelf(bsy.locators[p])

C37_SyncRecursionBoundedAndFinite ==
    /\ [](stack # <<>> =>
            /\ \A k \in 1..(Len(stack) - 1) :
                  stack[k + 1].cert.round = stack[k].cert.round - 1
            /\ Len(stack) <= stack[1].cert.round - storage.gc)
    /\ (stack # <<>> ~> stack = <<>>)

\* C37 witness: the recursion is two calls deep, the inner call for a
\* missing previous certificate of round 1, while other previous
\* certificates of the outer certificate are already in storage.
C37_Witness ==
    /\ Len(stack) = 2
    /\ stack[2].cert.round = 1
    /\ pc["load"] = "sy_store"
    /\ \E id \in stack[1].cert.prev : ContainsCertificate(storage, id)

\* C38: the round is recorded in the propose-lock before the header is
\* signed and stays recorded when the attempt fails: an attempt that comes
\* to sign records its round whatever the outcome of the signing, the
\* recorded round is never lowered, and a batch header is only signed for a
\* round above the recorded one, so after an attempt for round r, failed or
\* not, no later call of propose_batch creates a proposal for r.
C38_RecordedRoundIsNotProposedAgain ==
    [][/\ \A t \in Tasks :
             pc[t] = "pb_sign" /\ pc'[t] # "pb_sign" => propose_lock' = loc[t].round
       /\ propose_lock' >= propose_lock
       /\ headers' # headers =>
             /\ headers'[Len(headers')] > propose_lock
             /\ propose_lock' = headers'[Len(headers')]]_vars

\* C38 witness: an attempt for the current round signed the header and
\* failed before the certificate was formed; a later call of propose_batch
\* is under way for the same round.
C38_Witness ==
    \E t \in Tasks :
        /\ pc[t] = "pb_check"
        /\ lock_holder = t
        /\ propose_lock = storage.round
        /\ storage.round \in Range(headers)
        /\ formed[<<Self, storage.round>>] = 0

(***************************************************************************)
(* Claims about the certificates sent to the BFT (Spec).                   *)
(***************************************************************************)
\* C39: a certificate is sent to the BFT only after it was inserted into
\* the storage, and no certificate id is sent to the BFT twice, whether the
\* certificate comes from sync_with_certificate_from_peer, from
\* propose_batch_lite or from fake_proposal.
C39_SentToBftOnceAfterInsertion ==
    /\ [](~sent.dup)
    /\ [][\A id \in sent'.ids \ sent.ids : ContainsCertificate(storage', id)]_vars

\* C39 witness: the BFT was sent a certificate stored by
\* sync_with_certificate_from_peer, the certificate of a proposal of the
\* primary and a certificate of fake_proposal.
C39_Witness ==
    /\ \E id \in sent.ids : id[3] = 0
    /\ \E id \in sent.ids : id[1] = Self /\ id[3] >= 1
    /\ \E id \in sent.ids : id[1] # Self /\ id[3] >= 1

(***************************************************************************)
(* Claims about the propose lock under fair scheduling (SpecLock).         *)
(***************************************************************************)
\* the run of task t ends at the bound on the rounds: the increment to a
\* round above MaxRound is left out
RoundsExhausted(t) == pc[t] = "pb_inc_nar" /\ ~CanIncrement(loc[t].cur)

\* C40: the task that holds the propose lock never waits for the propose
\* lock (no path under the guard of propose_batch_lite reaches
\* propose_lock.lock() again), and every task that holds the lock
\* eventually releases it (in the rounds up to MaxRound).
C40_ProposeLockIsReleased ==
    /\ [](\A t \in Tasks : lock_holder = t => pc[t] # "pb_lock")
    /\ \A t \in Tasks : (lock_holder = t) ~> (lock_holder # t \/ RoundsExhausted(t))

\* C40 witness: a task holds the lock in the round increment that follows
\* the storing of its certificate while another task waits for the lock.
C40_Witness ==
    \E t, u \in Tasks :
        /\ lock_holder = t
        /\ pc[t] \in {"pb_inc_nar", "pb_inc_bft"}
        /\ Len(loc[t].log) > 0
        /\ pc[u] = "pb_lock"

====
